---- MODULE Spec2Model ----
(***************************************************************************)
(* Conversational scheduling page (patient-scheduler frontend).            *)
(*                                                                         *)
(* Two revisions of the Page component are modelled side by side; the      *)
(* variable `variant` (fixed at Init) says which one is running:           *)
(*   "page" : src/frontend/src/app/page.tsx  (flows + availability, hold   *)
(*            and booking lifecycle)                                       *)
(*   "chat" : src/unnamed/part_006           (flows + provider discovery   *)
(*            by specialty and by name, generic-intent follow-ups)         *)
(* React state fields are the VARIABLES.  A handler runs to completion up  *)
(* to its next await; every in-flight async handler is a record in `tasks` *)
(* holding its position and the locals captured by its closure.  Effects   *)
(* (useEffect) run as part of the commit of the action that changed their  *)
(* dependencies.                                                           *)
(***************************************************************************)
EXTENDS Integers, Sequences, FiniteSets, TLC

\* ------------------------------------------------------------------ bounds
MaxTurns == 2       \* non-blank handleSend activations explored
MaxInFlight == 2    \* async handlers allowed to overlap
MaxHolds == 2       \* /api/holds requests explored
MaxBookings == 2    \* /api/appointments requests explored
MaxAvail == 2       \* /api/availability requests explored
MaxSyncOps == 1     \* voice-chat / plan / preview clicks explored
MaxOptions == 2     \* answer options explored per symptom question
MaxPlans == 1       \* insurance plans explored
MaxSuggest == 2     \* debounce timers of the suggestion lookup that fire
MaxSlots == 2       \* slot buttons explored per provider card
MaxConfirms == 2    \* appointment confirmations explored

\* null for string-valued results of the classifiers
NULL == "null"

\* a nullable state field is the empty set (null) or a singleton
Null == {}
Some(v) == {v}
The(o) == CHOOSE v \in o : TRUE

\* ------------------------------------------------------- string primitives
UpperAlpha == "ABCDEFGHIJKLMNOPQRSTUVWXYZ"
LowerAlpha == "abcdefghijklmnopqrstuvwxyz"

\* String.prototype.slice(i - 1, j) for 1-based inclusive bounds, clipped to s
slice(s, i, j) == SubSeq(s, i, IF j > Len(s) THEN Len(s) ELSE j)

CharAt(s, i) == SubSeq(s, i, i)

IsUpper(c) == \E i \in 1..26 : CharAt(UpperAlpha, i) = c
IsLower(c) == \E i \in 1..26 : CharAt(LowerAlpha, i) = c
IsLetter(c) == IsUpper(c) \/ IsLower(c)
IsSpace(c) == c = " "

LowerChar(c) ==
  IF IsUpper(c)
    THEN CharAt(LowerAlpha, CHOOSE i \in 1..26 : CharAt(UpperAlpha, i) = c)
    ELSE c

RECURSIVE toLowerCase(_)
toLowerCase(s) ==
  IF Len(s) = 0 THEN ""
  ELSE LowerChar(CharAt(s, 1)) \o toLowerCase(SubSeq(s, 2, Len(s)))

\* String.prototype.includes
includes(s, pat) ==
  \E i \in 1..(Len(s) - Len(pat) + 1) : SubSeq(s, i, i + Len(pat) - 1) = pat

\* String.prototype.trim
RECURSIVE trimStart(_)
trimStart(s) ==
  IF Len(s) > 0 /\ IsSpace(CharAt(s, 1)) THEN trimStart(SubSeq(s, 2, Len(s))) ELSE s

RECURSIVE trimEnd(_)
trimEnd(s) ==
  IF Len(s) > 0 /\ IsSpace(CharAt(s, Len(s)))
    THEN trimEnd(SubSeq(s, 1, Len(s) - 1)) ELSE s

trim(s) == trimEnd(trimStart(s))

\* s.split(/\s+/) on a trimmed, non-empty string: the maximal runs of
\* non-space characters, in order.
RECURSIVE splitWs(_)
splitWs(s) ==
  LET t == trimStart(s) IN
  IF Len(t) = 0 THEN << >>
  ELSE LET ends == {i \in 1..Len(t) : i = Len(t) \/ IsSpace(CharAt(t, i + 1))}
           e == CHOOSE i \in ends : \A j \in ends : i <= j
       IN <<SubSeq(t, 1, e)>> \o splitWs(SubSeq(t, e + 1, Len(t)))

\* parts.join(sep)
RECURSIVE join(_, _)
join(parts, sep) ==
  IF Len(parts) = 0 THEN ""
  ELSE IF Len(parts) = 1 THEN parts[1]
  ELSE parts[1] \o sep \o join(Tail(parts), sep)

\* --------------------------------------------- pattern classifiers (chat)
detectUrgency(text) ==
  LET normalized == toLowerCase(text) IN
  IF \/ includes(normalized, "urgent")
     \/ includes(normalized, "asap")
     \/ includes(normalized, "right away")
     \/ includes(normalized, "today")
    THEN "urgent"
  ELSE IF \/ includes(normalized, "non-urgent")
          \/ includes(normalized, "not urgent")
          \/ includes(normalized, "routine")
          \/ includes(normalized, "checkup")
    THEN "routine"
  ELSE NULL

detectModePreference(text) ==
  LET normalized == toLowerCase(text) IN
  IF includes(normalized, "virtual") \/ includes(normalized, "telehealth")
    THEN "virtual"
  ELSE IF \/ includes(normalized, "in person")
          \/ includes(normalized, "in-person")
          \/ includes(normalized, "clinic")
    THEN "in_person"
  ELSE NULL

detectPatientGroup(text) ==
  LET normalized == toLowerCase(text) IN
  IF \/ includes(normalized, "child")
     \/ includes(normalized, "kid")
     \/ includes(normalized, "son")
     \/ includes(normalized, "daughter")
     \/ includes(normalized, "pediatric")
    THEN "pediatric"
  ELSE IF includes(normalized, "adult") THEN "adult"
  ELSE NULL

isInsuranceQuery(text) ==
  LET normalized == toLowerCase(text)
      mentionsInsurance ==
        \/ includes(normalized, "insurance")
        \/ includes(normalized, "coverage")
        \/ includes(normalized, "plan")
      mentionsDoctor ==
        \/ includes(normalized, "doctor")
        \/ includes(normalized, "provider")
        \/ includes(normalized, "accept")
        \/ includes(normalized, "which doctors")
  IN mentionsInsurance /\ mentionsDoctor

isSymptomQuery(text) ==
  LET normalized == toLowerCase(text) IN
  includes(normalized, "sore throat") \/ includes(normalized, "symptom checker")

\* /\b(?:in|near|around)\s+([A-Za-z][A-Za-z\s]{2,})/i : the capture of the
\* leftmost match, or NULL.  A match starts at a word boundary, is one of the
\* three prepositions, at least one blank, a letter and then the longest run
\* (two or more) of letters and blanks.
IsWordChar(c) == IsLetter(c) \/ c \in {"0","1","2","3","4","5","6","7","8","9","_"}

RECURSIVE spanWhile(_, _, _)
\* last index of the run starting at i whose characters are blanks
\* (kind = "ws") or letters/blanks (kind = "place"); i - 1 when the run is empty
spanWhile(s, i, kind) ==
  IF i <= Len(s) /\ (IsSpace(CharAt(s, i)) \/ (kind = "place" /\ IsLetter(CharAt(s, i))))
    THEN spanWhile(s, i + 1, kind)
    ELSE i - 1

\* length of the preposition (in | near | around) that starts at i, else 0
prepAt(low, i) ==
  IF slice(low, i, i + 1) = "in" THEN 2
  ELSE IF slice(low, i, i + 3) = "near" THEN 4
  ELSE IF slice(low, i, i + 5) = "around" THEN 6
  ELSE 0

\* the match that starts at i with a preposition of length n, blanks up to
\* wsEnd and a capture up to last: index of its last character, else 0
matchCheck(text, i, n, wsEnd, last) ==
  IF /\ n > 0
     /\ (i = 1 \/ ~IsWordChar(CharAt(text, i - 1)))
     /\ wsEnd >= i + n
     /\ wsEnd + 1 <= Len(text) /\ IsLetter(CharAt(text, wsEnd + 1))
     /\ last - (wsEnd + 1) >= 2
    THEN last ELSE 0

matchSpan(text, i, n, wsEnd) ==
  matchCheck(text, i, n, wsEnd, spanWhile(text, wsEnd + 2, "place"))

matchEnd(text, low, i) ==
  matchSpan(text, i, prepAt(low, i), spanWhile(text, i + prepAt(low, i), "ws"))

Least(set) == CHOOSE k \in set : \A j \in set : k <= j

captureAt(text, low, i) ==
  SubSeq(text, spanWhile(text, i + prepAt(low, i), "ws") + 1, matchEnd(text, low, i))

locationMatchFrom(text, low, starts) ==
  IF starts = {} THEN NULL ELSE captureAt(text, low, Least(starts))

locationMatchIn(text, low) ==
  locationMatchFrom(text, low, {i \in 1..Len(text) : matchEnd(text, low, i) > 0})

\* text.match(...)?.[1]: the capture of the leftmost match, NULL without one
locationMatch(text) == locationMatchIn(text, toLowerCase(text))

placeLabel(place) == IF Len(place) > 0 THEN "near " \o place ELSE NULL

capturedLabel(m) == IF m = NULL THEN NULL ELSE placeLabel(trim(m))

nearbyPhrase(normalized) ==
  \/ includes(normalized, "near me")
  \/ includes(normalized, "nearby")
  \/ includes(normalized, "around here")
  \/ includes(normalized, "close to me")

normalizeLocationLabel(text) ==
  IF nearbyPhrase(toLowerCase(text)) THEN "near you"
  ELSE capturedLabel(locationMatch(text))

\* the ordered (specialty, keywords) table of detectProviderSearch
specialties ==
  << [providerType |-> "cardiology",
      keywords |-> <<"cardiologist", "cardiology", "heart doctor", "heart specialist">>],
     [providerType |-> "neurology",
      keywords |-> <<"neurologist", "neurology", "brain doctor", "nerve">>],
     [providerType |-> "primary_care",
      keywords |-> <<"primary care", "pcp", "family doctor", "family medicine">>],
     [providerType |-> "urgent_care",
      keywords |-> <<"urgent care", "walk-in", "same-day">>],
     [providerType |-> "dermatology",
      keywords |-> <<"dermatology", "dermatologist", "skin doctor">>],
     [providerType |-> "orthopedics",
      keywords |-> <<"orthopedic", "orthopedics", "orthopedist", "joint doctor">>] >>

\* specialty.keywords.some((k) => normalized.includes(k))
keywordHit(normalized, keywords) ==
  \E j \in 1..Len(keywords) : includes(normalized, keywords[j])

orNearYou(label) == IF label = NULL THEN "near you" ELSE label

providerSearchFor(text, hits) ==
  IF hits = {} THEN Null
  ELSE Some([providerType |-> specialties[Least(hits)].providerType,
             locationLabel |-> orNearYou(normalizeLocationLabel(text))])

providerSearchIn(text, normalized) ==
  providerSearchFor(text,
    {k \in 1..Len(specialties) : keywordHit(normalized, specialties[k].keywords)})

detectProviderSearch(text) == providerSearchIn(text, toLowerCase(text))

\* /^[A-Za-z][A-Za-z.'-]*$/
isNameWord(word) ==
  /\ Len(word) >= 1
  /\ IsLetter(CharAt(word, 1))
  /\ \A i \in 2..Len(word) :
       IsLetter(CharAt(word, i)) \/ CharAt(word, i) \in {".", "'", "-"}

\* looksLikeProviderName without the title test of the three-word form
looksLikeProviderNameAnyThree(text) ==
  LET normalized == trim(text)
      words == splitWs(normalized)
  IN IF Len(normalized) < 3 \/ Len(normalized) > 120 THEN FALSE
     ELSE IF Len(words) = 0 \/ Len(words) > 3 THEN FALSE
     ELSE \A i \in 1..Len(words) : isNameWord(words[i])

looksLikeProviderName(text) ==
  LET normalized == trim(text)
      words == splitWs(normalized)
  IN IF Len(normalized) < 3 \/ Len(normalized) > 120 THEN FALSE
     ELSE IF Len(words) = 0 \/ Len(words) > 3 THEN FALSE
     ELSE IF Len(words) = 3
       THEN IF toLowerCase(words[1]) # "dr" THEN FALSE
            ELSE isNameWord(words[2]) /\ isNameWord(words[3])
     ELSE IF Len(words) = 2 THEN \A i \in 1..2 : isNameWord(words[i])
     ELSE isNameWord(words[1])

isNextAvailableRequest(text) ==
  LET normalized == toLowerCase(text) IN
  \/ includes(normalized, "next available")
  \/ includes(normalized, "earliest available")
  \/ includes(normalized, "soonest")
  \/ includes(normalized, "first available")

\* --------------------------------------------- pattern classifiers (page)
isPrimaryCareQuery(text) ==
  LET normalized == toLowerCase(text) IN
  includes(normalized, "primary care") \/ includes(normalized, "pcp")

isInsuranceQueryPage(text) ==
  LET normalized == toLowerCase(text) IN
  (includes(normalized, "pcp") \/ includes(normalized, "primary care"))
    /\ includes(normalized, "insurance")

\* ------------------------------------------------------------ utterances
\* What the user may type or click, as the literal strings.
Utterances ==
  { "Which primary care doctors accept my insurance for a sore throat?",
    "Find a primary care provider near me",
    "Which doctors accept my insurance?",
    "I have a sore throat",
    "Dr Jane Smith",
    "symptom checker",
    "pcp",
    "I have chest pain",
    "earliest available appointment in Des Moines",
    "Dr Jane Smith ",
    "Dr. Adams",
    "Dr. Baker",
    "I need a visit",
    "I want a virtual visit",
    "I want a virtual visit today",
    "I want a virtual visit today for my child",
    "Primary Care", "Urgent Care", "Pediatrics",
    "In-person", "Virtual", "Today or soon", "Routine", "Adult", "Child",
    "Share details", "Skip for now",
    "   " }


\* quickPrompts of each revision; only those in Utterances are explored
quickPrompts(v) ==
  IF v = "page"
    THEN { "Find a primary care provider near me",
           "Which doctors do virtual visits?",
           \* (the source spells the apostrophe as U+2019)
           "What's the earliest available appointment?",
           "Find a pediatrician accepting new patients" }
    ELSE { "Find a primary care provider near me",
           "Find a cardiologist near me",
           "Find a neurologist near me",
           "What's the earliest available appointment?",
           "Which doctors accept my insurance?" }

\* every text a turn can carry, and what the classifiers of handleSend
\* return for it (each classifier is evaluated once per text)
Texts == {trim(u) : u \in Utterances \cup quickPrompts("page") \cup quickPrompts("chat")}

Classified ==
  [t \in Texts |->
     [isInsuranceQueryPage |-> isInsuranceQueryPage(t),
      isPrimaryCareQuery |-> isPrimaryCareQuery(t),
      isSymptomQuery |-> isSymptomQuery(t),
      isInsuranceQuery |-> isInsuranceQuery(t),
      looksLikeProviderName |-> looksLikeProviderName(t),
      detectProviderSearch |-> detectProviderSearch(t),
      isNextAvailableRequest |-> isNextAvailableRequest(t),
      normalizeLocationLabel |-> normalizeLocationLabel(t)]]

Trimmed == [u \in Utterances \cup {""} |-> trim(u)]

\* the plan names (the chat revision adds a shorthand and a colour to each)
insurancePlans ==
  << "UnitedHealthcare", "Wellmark Blue Cross Blue Shield",
     "Anthem Blue Cross Blue Shield", "Aetna", "Cigna",
     "Wellpoint (formerly Amerigroup)", "Medicaid" >>

insuranceCareSuggestions == << "Primary Care", "Urgent Care", "Pediatrics" >>

symptomQuestions ==
  << [id |-> "duration", options |-> <<"Less than a day", "1-3 days", "More than 3 days">>],
     [id |-> "fever", options |-> <<"No fever", "Mild fever", "High fever">>],
     [id |-> "breathing", options |-> <<"No", "Mild discomfort", "Yes, significant">>] >>

\* ------------------------------------------------- collaborator responses
\* Values the external services may answer with (inputs of the model).
Slot(p, name, start, m) ==
  [provider_id |-> p, provider_name |-> name, start |-> start, mode |-> m]

SlotA == Slot("prov_1", "Dr. Adams", "2025-01-06T09:00", "in_person")
SlotB == Slot("prov_2", "Dr. Baker", "2025-01-06T09:30", "virtual")

AvailabilityResponses == { << >>, <<SlotA, SlotB>> }

Provider(p, name, type, virt, start, m) ==
  [provider_id |-> p, name |-> name, provider_type |-> type,
   accepts_virtual |-> virt, next_available_start |-> start,
   next_available_mode |-> m]

ProvA == Provider("prov_1", "Dr. Adams", "primary_care", FALSE, Some("2025-01-06T09:00"), Some("in_person"))
ProvB == Provider("prov_2", "Dr. Baker", "cardiology", TRUE, Null, Null)

ProvidersResponses == { << >>, <<ProvA, ProvB>> }

\* provider-search answers: exact matches, suggestions only, nothing
ProviderSearchResponses ==
  { [providers |-> <<ProvA>>, suggestions |-> << >>],
    [providers |-> << >>, suggestions |-> <<ProvB>>],
    [providers |-> << >>, suggestions |-> << >>] }

IntentResp(esc, safety, code, label, ptype, followUps) ==
  [escalate |-> esc, safety_message |-> safety, visit_reason_code |-> code,
   visit_reason_label |-> label, recommended_provider_type |-> ptype,
   follow_up_questions |-> followUps]

SearchIntentResponses ==
  { IntentResp(TRUE, Some("Call 911 now."), Some("CHEST_PAIN"), Some("chest pain"), Null, << >>),
    IntentResp(TRUE, Null, Null, Null, Null, << >>),
    IntentResp(FALSE, Null, Some("GENERIC_VISIT"), Some("a visit"), Some("primary_care"), << >>),
    IntentResp(FALSE, Null, Null, Null, Null, <<"Any allergies?">>) }

CareOption(type, label, suggested) ==
  [provider_type |-> type, label |-> label, suggested |-> suggested]

CareOptionsResponses ==
  { << >>,
    << CareOption("primary_care", "Primary care", FALSE),
       CareOption("urgent_care", "Urgent care", TRUE) >> }

\* the message of a failed fetch (res.text() of a non-2xx answer)
ErrorReasons == { "Service unavailable" }

\* identifiers the hold and booking services hand out, in order
HoldIds == << "hold_1", "hold_2", "hold_3", "hold_4" >>
AppointmentIds == << "appt_1", "appt_2", "appt_3", "appt_4" >>
ExpiryOf(h) == "expires:" \o h

\* coordinates / labels the geolocation services may resolve to
Coords == "41.600, -93.609"
GeocodeLabels == { "Des Moines, IA" }

\* ---------------------------------------------------------------- state
VARIABLES
  variant,            \* which revision of Page is running
  hasGeolocation,     \* navigator.geolocation is available in this browser
  messages,           \* transcript: Msg records, `op` = the activation that wrote it
  input,              \* composer text
  loading,
  intent,             \* page: SearchIntentResponse | null
  careOptions,        \* page: CareOption[] | null
  selectedCareType,   \* page
  availability,       \* page: AvailabilitySlot[] | null
  selectedSlot,       \* page
  selectedAppointmentPreview, \* page
  holdId,             \* page
  holdExpiresAt,      \* page
  bookingStatus,      \* page
  providerMatches,
  providerDiscoveryMode,
  providerDiscoveryContext,   \* chat
  searchSuggestions,  \* chat: ProviderSearchResponse | null
  lastSuggestionQuery,        \* chat
  timers,             \* chat: pending debounce timers of the suggestion lookup
  insuranceFlowActive,
  selectedInsurance,
  selectedAppointment,        \* chat
  symptomFlowActive,
  symptomStep,
  symptomResponses,   \* set of [id, answer], one per answered question
  geoStatus,
  userLocation,
  tasks,              \* suspended async activations (awaiting a collaborator)
  nextOp,             \* next activation number
  used,               \* how many activations of each bounded kind were started
                      \* (cleared: 1 once a pending debounce timer was cleared)
  backendHolds,       \* holds the hold service created: [hold_id, provider_id, start]
  backendBookings,    \* appointments the booking service confirmed
  lastHold,           \* hold id of the most recently completed successful hold
  escalated,          \* [turn, safety_message] of each search-intent response with escalate = true
  call                \* a helper function under evaluation: [fn, arg, result], or Null

vars ==
  << variant, hasGeolocation, messages, input, loading, intent, careOptions,
     selectedCareType, availability, selectedSlot, selectedAppointmentPreview,
     holdId, holdExpiresAt, bookingStatus, providerMatches,
     providerDiscoveryMode, providerDiscoveryContext, searchSuggestions,
     lastSuggestionQuery, timers, insuranceFlowActive,
     selectedInsurance, selectedAppointment, symptomFlowActive, symptomStep,
     symptomResponses, geoStatus, userLocation, tasks, nextOp, used,
     backendHolds, backendBookings, lastHold, escalated, call >>

\* the current state as one record, so that a handler is a function of it;
\* frame holds handleSend's locals (text, activation id) while it runs
S ==
  [ variant |-> variant, hasGeolocation |-> hasGeolocation,
    messages |-> messages, input |-> input, loading |-> loading,
    intent |-> intent, careOptions |-> careOptions,
    selectedCareType |-> selectedCareType, availability |-> availability,
    selectedSlot |-> selectedSlot,
    selectedAppointmentPreview |-> selectedAppointmentPreview,
    holdId |-> holdId, holdExpiresAt |-> holdExpiresAt,
    bookingStatus |-> bookingStatus, providerMatches |-> providerMatches,
    providerDiscoveryMode |-> providerDiscoveryMode,
    providerDiscoveryContext |-> providerDiscoveryContext,
    searchSuggestions |-> searchSuggestions,
    lastSuggestionQuery |-> lastSuggestionQuery, timers |-> timers,
    insuranceFlowActive |-> insuranceFlowActive,
    selectedInsurance |-> selectedInsurance,
    selectedAppointment |-> selectedAppointment,
    symptomFlowActive |-> symptomFlowActive, symptomStep |-> symptomStep,
    symptomResponses |-> symptomResponses, geoStatus |-> geoStatus,
    userLocation |-> userLocation, frame |-> Null, tasks |-> tasks,
    nextOp |-> nextOp, used |-> used,
    backendHolds |-> backendHolds, backendBookings |-> backendBookings,
    lastHold |-> lastHold, escalated |-> escalated ]

\* useState initial values
InitState(v, geo) ==
  [ variant |-> v, hasGeolocation |-> geo,
    messages |-> << >>, input |-> "", loading |-> FALSE,
    intent |-> Null, careOptions |-> Null, selectedCareType |-> Null,
    availability |-> Null, selectedSlot |-> Null,
    selectedAppointmentPreview |-> Null, holdId |-> Null,
    holdExpiresAt |-> Null, bookingStatus |-> Null,
    providerMatches |-> Null, providerDiscoveryMode |-> "idle",
    providerDiscoveryContext |-> Null, searchSuggestions |-> Null,
    lastSuggestionQuery |-> "", timers |-> {},
    insuranceFlowActive |-> FALSE,
    selectedInsurance |-> Null, selectedAppointment |-> Null,
    symptomFlowActive |-> FALSE, symptomStep |-> 0,
    symptomResponses |-> {}, geoStatus |-> "idle", userLocation |-> Null,
    frame |-> Null, tasks |-> {}, nextOp |-> 1,
    used |-> [turns |-> 0, holds |-> 0, bookings |-> 0, avail |-> 0, sync |-> 0,
              suggest |-> 0, cleared |-> 0],
    backendHolds |-> {}, backendBookings |-> {},
    lastHold |-> Null, escalated |-> {} ]

\* a transcript entry; kind and options are the optional fields of Msg
Msg(role, text, op) ==
  [role |-> role, text |-> text, kind |-> NULL, options |-> << >>, op |-> op]
MsgKind(role, text, kind, op) ==
  [role |-> role, text |-> text, kind |-> kind, options |-> << >>, op |-> op]
MsgOptions(role, text, options, op) ==
  [role |-> role, text |-> text, kind |-> NULL, options |-> options, op |-> op]

\* a suspended activation: which handler, which call it awaits, the locals
\* its continuation still reads, and `cause`: the activation in whose commit
\* the call was issued (its own id, or the one whose commit ran the effect)
Task(id, op, at, text, arg, cause) ==
  [id |-> id, op |-> op, at |-> at, text |-> text, arg |-> arg, cause |-> cause]

\* issue a collaborator call from activation id and suspend on it
Await(s, id, op, ep, text, arg) ==
  [s EXCEPT !.tasks = @ \cup {Task(id, op, ep, text, arg, id)}]

AwaitFor(s, id, op, ep, text, arg, cause) ==
  [s EXCEPT !.tasks = @ \cup {Task(id, op, ep, text, arg, cause)}]

Resume(s, t) == [s EXCEPT !.tasks = @ \ {t}]

NoArg == [none |-> TRUE]

\* ======================================================= page revision ==
\* resetFlows with setSymptomResponses({}) and setUserLocation(null) left out
resetFlowsKeepingAnswers(s) ==
  [s EXCEPT !.insuranceFlowActive = FALSE,
            !.selectedInsurance = Null,
            !.symptomFlowActive = FALSE,
            !.symptomStep = 0,
            !.geoStatus = "idle",
            !.providerMatches = Null,
            !.providerDiscoveryMode = "idle"]

resetFlowsPage(s) ==
  [s EXCEPT !.insuranceFlowActive = FALSE,
            !.selectedInsurance = Null,
            !.symptomFlowActive = FALSE,
            !.symptomStep = 0,
            !.symptomResponses = {},
            !.geoStatus = "idle",
            !.userLocation = Null,
            !.providerMatches = Null,
            !.providerDiscoveryMode = "idle"]

\* truthiness of intent?.visit_reason_code
IntentCode(s) ==
  IF s.intent = Null THEN Null ELSE The(s.intent).visit_reason_code

\* fetchPrimaryCareProviders up to its await
fetchPrimaryCareProviders(s, id, text) ==
  Await([s EXCEPT !.providerDiscoveryMode = "finding", !.providerMatches = Null],
        id, "handleSend", "providers", text, NoArg)

\* fetchPrimaryCareProviders after its await; r = [ok, body]
fetchPrimaryCareProvidersSettled(s, t, r) ==
  LET done ==
        IF r.ok
          THEN [s EXCEPT
                 !.providerMatches = Some(r.body),
                 !.selectedCareType = Some("primary_care"),
                 !.intent = Some(IntentResp(FALSE, Null, Some("PRIMARY_CARE_VISIT"),
                                            Some("a primary care visit"),
                                            Some("primary_care"), << >>)),
                 !.careOptions = Some(<< CareOption("primary_care", "Primary care (AI matched)", TRUE),
                                         CareOption("urgent_care", "Urgent care (just in case)", FALSE) >>),
                 !.messages = Append(@, Msg("assistant",
                    "Here are primary care providers surfaced from our directory with live availability.",
                    t.id))]
          ELSE [s EXCEPT !.messages = Append(@, Msg("assistant", "Error: " \o r.body, t.id))]
  IN [Resume(done, t) EXCEPT !.loading = FALSE, !.providerDiscoveryMode = "idle"]

\* loadAvailability up to its await (no-op when its guard fails); by = the
\* activation whose commit ran the effect that called it, 0 for a click
loadAvailability(s, by) ==
  IF s.selectedCareType = Null \/ IntentCode(s) = Null THEN s
  ELSE AwaitFor([s EXCEPT !.selectedSlot = Null,
                       !.holdId = Null,
                       !.holdExpiresAt = Null,
                       !.bookingStatus = Null,
                       !.selectedAppointmentPreview = Null,
                       !.loading = TRUE,
                       !.nextOp = @ + 1,
                       !.used.avail = @ + 1],
             s.nextOp, "loadAvailability", "availability", "", NoArg,
             IF by = 0 THEN s.nextOp ELSE by)

loadAvailabilitySettled(s, t, r) ==
  LET done ==
        IF r.ok THEN [s EXCEPT !.availability = Some(r.body)]
        ELSE [s EXCEPT !.messages = Append(@, Msg("assistant", r.body, t.id))]
  IN [Resume(done, t) EXCEPT !.loading = FALSE]

\* handleSend, first part: guard, clearing of the previous turn, user message
handleSendBeginPage(s, customText) ==
  LET raw == IF customText = Null THEN s.input ELSE The(customText)
      text == Trimmed[raw]
      cleared == [s EXCEPT !.input = IF customText = Null THEN "" ELSE @,
                           !.availability = Null,
                           !.selectedSlot = Null,
                           !.holdId = Null,
                           !.holdExpiresAt = Null,
                           !.careOptions = Null,
                           !.selectedCareType = Null,
                           !.intent = Null,
                           !.bookingStatus = Null]
  IN IF Len(text) = 0 THEN s
     ELSE [resetFlowsPage(cleared) EXCEPT
             !.messages = Append(@, Msg("user", text, s.nextOp)),
             !.loading = TRUE,
             !.frame = Some([text |-> text, id |-> s.nextOp]),
             !.nextOp = @ + 1,
             !.used.turns = @ + 1]

\* the insurance branch of handleSend
enterInsuranceFlowPage(s, id) ==
  [s EXCEPT !.loading = FALSE,
            !.insuranceFlowActive = TRUE,
            !.messages = Append(@, Msg("assistant",
               "Choose from a list of popular insurance plans and I'll find PCPs who accept them.",
               id))]

\* the symptom branch of handleSend
enterSymptomFlowPage(s, id) ==
  [s EXCEPT !.loading = FALSE,
            !.symptomFlowActive = TRUE,
            !.intent = Some(IntentResp(FALSE, Null, Some("SORE_THROAT"),
                                       Some("sore throat"), Some("urgent_care"), << >>)),
            !.careOptions = Some(<< CareOption("urgent_care", "Urgent care (nearby clinics)", TRUE),
                                    CareOption("primary_care", "Primary care follow-up", FALSE) >>),
            !.selectedCareType = Some("urgent_care"),
            !.messages = Append(@, Msg("assistant",
               "Let's run a quick symptom check to match an urgent care slot and geolocate you automatically.",
               id))]

\* the classifier cascade with the symptom rule tried before the insurance rule
handleSendSymptomFirst(s) ==
  LET f == The(s.frame)
      s0 == [s EXCEPT !.frame = Null]
      c == Classified[f.text]
  IN IF c.isSymptomQuery THEN enterSymptomFlowPage(s0, f.id)
     ELSE IF c.isInsuranceQueryPage THEN enterInsuranceFlowPage(s0, f.id)
     ELSE IF c.isPrimaryCareQuery THEN fetchPrimaryCareProviders(s0, f.id, f.text)
     ELSE Await(s0, f.id, "handleSend", "search-intent", f.text, NoArg)

\* handleSend, second part: the classifier cascade up to the first await
handleSendClassifyPage(s) ==
  LET f == The(s.frame)
      s0 == [s EXCEPT !.frame = Null]
      c == Classified[f.text]
  IN IF c.isInsuranceQueryPage THEN enterInsuranceFlowPage(s0, f.id)
     ELSE IF c.isPrimaryCareQuery THEN fetchPrimaryCareProviders(s0, f.id, f.text)
     ELSE IF c.isSymptomQuery THEN enterSymptomFlowPage(s0, f.id)
     ELSE Await(s0, f.id, "handleSend", "search-intent", f.text, NoArg)

\* handleSend after the search-intent await
searchIntentSettledPage(s, t, r) ==
  IF ~r.ok
    THEN [Resume(s, t) EXCEPT
            !.messages = Append(@, Msg("assistant", "Error: " \o r.body, t.id)),
            !.loading = FALSE]
  ELSE LET intentResp == r.body
           s1 == [s EXCEPT !.intent = Some(intentResp)]
       IN IF intentResp.escalate
            THEN [Resume(s1, t) EXCEPT
                    !.messages = Append(@, Msg("assistant",
                       IF intentResp.safety_message # Null
                         THEN The(intentResp.safety_message)
                         ELSE "This may require immediate care.", t.id)),
                    !.loading = FALSE]
          ELSE Await(
                 [Resume(s1, t) EXCEPT
                    !.messages = Append(@, Msg("assistant",
                       "I can help schedule care for "
                         \o (IF intentResp.visit_reason_label = Null THEN "undefined"
                             ELSE The(intentResp.visit_reason_label)) \o ".", t.id))],
                 t.id, "handleSend", "care-options", t.text, NoArg)

\* handleSend after the care-options await
careOptionsSettled(s, t, r) ==
  LET done ==
        IF r.ok
          THEN LET opts == r.body
                   sugg == {i \in 1..Len(opts) : opts[i].suggested}
                   suggested ==
                     IF sugg # {}
                       THEN Some(opts[CHOOSE i \in sugg : \A j \in sugg : i <= j].provider_type)
                     ELSE IF Len(opts) > 0 THEN Some(opts[1].provider_type)
                     ELSE Null
               IN [s EXCEPT !.careOptions = Some(opts), !.selectedCareType = suggested]
          ELSE [s EXCEPT !.messages = Append(@, Msg("assistant", "Error: " \o r.body, t.id))]
  IN [Resume(done, t) EXCEPT !.loading = FALSE]

ProviderName(pid) ==
  IF pid = "prov_1" THEN "Dr. Adams" ELSE IF pid = "prov_2" THEN "Dr. Baker" ELSE pid

\* holdSlot up to its await, with setSelectedSlot(slot) made before the call
holdSlotSelectingEarly(s, slot) ==
  IF IntentCode(s) = Null THEN s
  ELSE Await([s EXCEPT !.loading = TRUE,
                       !.bookingStatus = Null,
                       !.selectedSlot = Some(slot),
                       !.nextOp = @ + 1,
                       !.used.holds = @ + 1],
             s.nextOp, "holdSlot", "holds", "",
             [slot |-> slot, visit_reason_code |-> The(IntentCode(s))])

\* holdSlot up to its await (no-op when no visit reason is known)
holdSlot(s, slot) ==
  IF IntentCode(s) = Null THEN s
  ELSE Await([s EXCEPT !.loading = TRUE,
                       !.bookingStatus = Null,
                       !.nextOp = @ + 1,
                       !.used.holds = @ + 1],
             s.nextOp, "holdSlot", "holds", "",
             [slot |-> slot, visit_reason_code |-> The(IntentCode(s))])

\* the hold service: a fresh hold id for the (provider, start) of the request
CreateHold(s, t) ==
  LET h == HoldIds[Cardinality(s.backendHolds) + 1]
  IN [hold_id |-> h, expires_at |-> ExpiryOf(h),
      provider_id |-> t.arg.slot.provider_id, start |-> t.arg.slot.start,
      mode |-> t.arg.slot.mode]

\* new Date(start).toLocaleString() in the en-US locale, for a local
\* "YYYY-MM-DDTHH:MM" timestamp: "M/D/YYYY, h:MM:00 AM|PM"
TwoDigits == << "00", "01", "02", "03", "04", "05", "06", "07", "08", "09", "10", "11",
                "12", "13", "14", "15", "16", "17", "18", "19", "20", "21", "22", "23" >>
Hours12 == << "12", "1", "2", "3", "4", "5", "6", "7", "8", "9", "10", "11" >>
unpadded(dd) == IF CharAt(dd, 1) = "0" THEN CharAt(dd, 2) ELSE dd
hourOf(hh) == (CHOOSE i \in 1..24 : TwoDigits[i] = hh) - 1
toLocaleString(start) ==
  unpadded(SubSeq(start, 6, 7)) \o "/" \o unpadded(SubSeq(start, 9, 10)) \o "/"
    \o SubSeq(start, 1, 4) \o ", "
    \o Hours12[(hourOf(SubSeq(start, 12, 13)) % 12) + 1] \o ":" \o SubSeq(start, 15, 16)
    \o ":00 " \o (IF hourOf(SubSeq(start, 12, 13)) < 12 THEN "AM" ELSE "PM")

\* the try block of holdSlot with setHoldExpiresAt left out
holdSucceededWithoutExpiry(s, t, r) ==
  [s EXCEPT !.selectedSlot = Some(t.arg.slot),
            !.holdId = Some(r.body.hold_id),
            !.messages = Append(@, Msg("assistant",
               "Holding " \o toLocaleString(t.arg.slot.start) \o " with "
                  \o t.arg.slot.provider_name \o ".", t.id))]

\* the try block of holdSlot after the call returned
holdSucceeded(s, t, r) ==
  [s EXCEPT !.selectedSlot = Some(t.arg.slot),
            !.holdId = Some(r.body.hold_id),
            !.holdExpiresAt = Some(r.body.expires_at),
            !.messages = Append(@, Msg("assistant",
               "Holding " \o toLocaleString(t.arg.slot.start) \o " with "
                  \o t.arg.slot.provider_name \o ".", t.id))]

\* the catch block of holdSlot
holdFailed(s, t, r) ==
  [s EXCEPT !.bookingStatus = Some("Hold failed: " \o r.body)]

\* holdSlot after its await, with a failure also dropping the tracked hold
holdSlotSettledClearingOnFailure(s, t, r) ==
  LET done ==
        IF r.ok THEN holdSucceeded(s, t, r)
        ELSE [holdFailed(s, t, r) EXCEPT !.selectedSlot = Null,
                                         !.holdId = Null,
                                         !.holdExpiresAt = Null]
  IN [Resume(done, t) EXCEPT !.loading = FALSE]

\* holdSlot after its await, with a hold id that is already tracked kept
holdSlotSettledKeepingFirst(s, t, r) ==
  LET done ==
        IF r.ok
          THEN [holdSucceeded(s, t, r) EXCEPT
                  !.holdId = IF s.holdId # Null THEN s.holdId ELSE @]
          ELSE holdFailed(s, t, r)
  IN [Resume(done, t) EXCEPT !.loading = FALSE]

\* holdSlot after its await
holdSlotSettled(s, t, r) ==
  LET done == IF r.ok THEN holdSucceeded(s, t, r) ELSE holdFailed(s, t, r)
  IN [Resume(done, t) EXCEPT !.loading = FALSE]

\* bookAppointment past its guard, up to its await
bookAppointmentCall(s) ==
  Await([s EXCEPT !.loading = TRUE,
                  !.bookingStatus = Null,
                  !.nextOp = @ + 1,
                  !.used.bookings = @ + 1],
        s.nextOp, "bookAppointment", "appointments", "",
        [hold_id |-> The(s.holdId)])

\* bookAppointment reporting a missing hold in bookingStatus
bookAppointmentReporting(s) ==
  IF s.holdId = Null \/ s.selectedSlot = Null
    THEN [s EXCEPT !.bookingStatus = Some("Booking failed: no active hold")]
    ELSE bookAppointmentCall(s)

\* bookAppointment up to its await (no-op without a hold and a selected slot)
bookAppointment(s) ==
  IF s.holdId = Null \/ s.selectedSlot = Null THEN s
  ELSE bookAppointmentCall(s)

\* the booking service: the appointment echoes the slot of the hold it is given
ConfirmBooking(s, t) ==
  LET h == CHOOSE b \in s.backendHolds : b.hold_id = t.arg.hold_id
  IN [appointment_id |-> AppointmentIds[Cardinality(s.backendBookings) + 1],
      hold_id |-> h.hold_id, provider_id |-> h.provider_id,
      provider_name |-> ProviderName(h.provider_id),
      start |-> h.start, mode |-> h.mode, status |-> "confirmed"]

\* the try block of bookAppointment after the call returned
bookingSucceeded(s, t, r) ==
  [s EXCEPT !.bookingStatus = Some("Booked with " \o r.body.provider_name
                                    \o " on " \o toLocaleString(r.body.start) \o "."),
            !.messages = Append(@, Msg("assistant",
               "Booked " \o r.body.status \o " with " \o r.body.provider_name
                 \o " (" \o r.body.mode \o "). Confirmation: "
                 \o r.body.appointment_id \o ".", t.id))]

\* the catch block of bookAppointment
bookingFailed(s, t, r) ==
  [s EXCEPT !.bookingStatus = Some("Booking failed: " \o r.body)]

\* bookAppointment after its await, with a failure releasing the hold
bookAppointmentSettledDroppingHold(s, t, r) ==
  LET done ==
        IF r.ok THEN bookingSucceeded(s, t, r)
        ELSE [bookingFailed(s, t, r) EXCEPT !.holdId = Null,
                                            !.holdExpiresAt = Null,
                                            !.selectedSlot = Null]
  IN [Resume(done, t) EXCEPT !.loading = FALSE]

\* bookAppointment after its await
bookAppointmentSettled(s, t, r) ==
  LET done == IF r.ok THEN bookingSucceeded(s, t, r) ELSE bookingFailed(s, t, r)
  IN [Resume(done, t) EXCEPT !.loading = FALSE]

\* answerSymptomQuestion waiting for the geolocation request to settle
answerSymptomQuestionAfterLocation(s, option) ==
  IF s.symptomStep + 1 > Len(symptomQuestions) \/ s.geoStatus = "locating" THEN s
  ELSE LET current == symptomQuestions[s.symptomStep + 1]
           recorded == [s EXCEPT
                          !.symptomResponses =
                             {a \in @ : a.id # current.id}
                               \cup {[id |-> current.id, answer |-> option]},
                          !.symptomStep = @ + 1]
       IN IF s.symptomStep + 1 >= Len(symptomQuestions)
            THEN [recorded EXCEPT !.messages = Append(@, Msg("assistant",
                    "Thanks for the details. I'll check urgent care times "
                      \o (IF s.userLocation # Null /\ The(s.userLocation) # ""
                            THEN "near " \o The(s.userLocation) ELSE "near you")
                      \o ".", 0))]
            ELSE recorded

\* answerSymptomQuestion recording every answer under the first question's id
answerSymptomQuestionFirstId(s, option) ==
  IF s.symptomStep + 1 > Len(symptomQuestions) THEN s
  ELSE LET current == symptomQuestions[1]
           nextStep == s.symptomStep + 1
           recorded == [s EXCEPT
                          !.symptomResponses =
                             {a \in @ : a.id # current.id}
                               \cup {[id |-> current.id, answer |-> option]},
                          !.symptomStep = nextStep]
       IN IF nextStep >= Len(symptomQuestions)
            THEN [recorded EXCEPT !.messages = Append(@, Msg("assistant",
                    "Thanks for the details. I'll check urgent care times "
                      \o (IF s.userLocation # Null /\ The(s.userLocation) # ""
                            THEN "near " \o The(s.userLocation) ELSE "near you")
                      \o ".", 0))]
            ELSE recorded

\* answerSymptomQuestion
answerSymptomQuestion(s, option) ==
  IF s.symptomStep + 1 > Len(symptomQuestions) THEN s
  ELSE LET current == symptomQuestions[s.symptomStep + 1]
           nextStep == s.symptomStep + 1
           recorded == [s EXCEPT
                          !.symptomResponses =
                             {a \in @ : a.id # current.id}
                               \cup {[id |-> current.id, answer |-> option]},
                          !.symptomStep = nextStep]
       IN IF nextStep >= Len(symptomQuestions)
            THEN [recorded EXCEPT !.messages = Append(@, Msg("assistant",
                    "Thanks for the details. I'll check urgent care times "
                      \o (IF s.userLocation # Null /\ The(s.userLocation) # ""
                            THEN "near " \o The(s.userLocation) ELSE "near you")
                      \o ".", 0))]
            ELSE recorded

handleVoiceChat(s) ==
  [s EXCEPT !.messages = Append(@, Msg("system", "Voice chat is getting ready.", 0))]

\* the geolocation effect: runs after a commit in which the symptom flow is
\* active and geoStatus is idle
geolocationEffect(s) ==
  IF ~s.symptomFlowActive \/ s.geoStatus # "idle" THEN s
  ELSE IF ~s.hasGeolocation THEN [s EXCEPT !.geoStatus = "denied"]
  ELSE [s EXCEPT !.geoStatus = "locating",
                 !.tasks = @ \cup {Task(s.nextOp, "geolocation", "position", "", NoArg, s.nextOp)},
                 !.nextOp = @ + 1]

\* page: getCurrentPosition callbacks; r.ok = position obtained
geolocationSettledPage(s, t, r) ==
  IF r.ok
    THEN [Resume(s, t) EXCEPT !.userLocation = Some(r.body), !.geoStatus = "granted"]
    ELSE [Resume(s, t) EXCEPT !.geoStatus = "denied"]

\* page: the effect that loads availability once providers, a care type and
\* a visit reason are known; it re-runs when one of its dependencies changed
\* in the commit (fresh = providerMatches was assigned a new array)
availabilityEffect(old, s, fresh, by) ==
  LET changed == \/ IntentCode(old) # IntentCode(s)
                 \/ old.selectedCareType # s.selectedCareType
                 \/ old.providerMatches # s.providerMatches
                 \/ fresh
  IN IF ~changed THEN s
     ELSE IF s.providerMatches = Null \/ Len(The(s.providerMatches)) = 0 THEN s
     ELSE IF s.selectedCareType = Null \/ IntentCode(s) = Null THEN s
     ELSE loadAvailability(s, by)

\* chat: a suggestion request whose effect run was cleaned up
cancelledLookup(t) ==
  IF t.op = "suggest" THEN [t EXCEPT !.arg.cancelled = TRUE] ELSE t

\* the cleanup of the suggestion effect with clearTimeout(handle) left out
suggestionCleanupKeepingTimer(s) ==
  [s EXCEPT !.tasks = {cancelledLookup(t) : t \in @}]

\* chat: the cleanup of the suggestion effect: cancelled = true for the run
\* it belongs to, and clearTimeout(handle)
suggestionCleanup(s) ==
  [s EXCEPT !.timers = {},
            !.tasks = {cancelledLookup(t) : t \in @},
            !.used.cleared = IF s.timers # {} THEN 1 ELSE @]

\* chat: the body of the suggestion effect for the input of this render
suggestionLookup(s, query) ==
  IF Len(query) < 3 \/ ~Classified[query].looksLikeProviderName
    THEN [s EXCEPT !.searchSuggestions = Null, !.lastSuggestionQuery = ""]
    ELSE [s EXCEPT !.timers = @ \cup {[query |-> query, input |-> s.input]}]

\* chat: the suggestion effect re-runs (cleanup, then body) when input changed
suggestionEffect(old, s) ==
  IF old.input = s.input THEN s
  ELSE suggestionLookup(suggestionCleanup(s), Trimmed[s.input])

\* chat: the debounce timer tm fires: the callback up to its await
suggestionTimerFired(s, tm) ==
  [s EXCEPT !.timers = @ \ {tm},
            !.tasks = @ \cup {Task(s.nextOp, "suggest", "suggestions", tm.query,
                                   [input |-> tm.input, cancelled |-> FALSE], s.nextOp)},
            !.nextOp = @ + 1,
            !.used.suggest = @ + 1]

\* chat: the timer callback after its await; `input` is the one its effect
\* run closed over
suggestionsSettled(s, t, r) ==
  IF r.ok
    THEN IF t.arg.cancelled \/ t.text # Trimmed[t.arg.input] THEN Resume(s, t)
         ELSE [Resume(s, t) EXCEPT !.searchSuggestions = Some(r.body),
                                   !.lastSuggestionQuery = t.text]
    ELSE IF t.arg.cancelled THEN Resume(s, t)
         ELSE [Resume(s, t) EXCEPT !.searchSuggestions = Null]

\* effects of a commit, in declaration order
Effects(old, new, fresh, by) ==
  IF new.variant = "page"
    THEN availabilityEffect(old, geolocationEffect(new), fresh, by)
    ELSE geolocationEffect(suggestionEffect(old, new))

\* ======================================================= chat revision ==
formatSpecialty(type) ==
  CASE type = "primary_care" -> "Primary Care"
    [] type = "urgent_care" -> "Urgent Care"
    [] type = "dermatology" -> "Dermatology"
    [] type = "orthopedics" -> "Orthopedics"
    [] type = "cardiology" -> "Cardiology"
    [] type = "neurology" -> "Neurology"
    [] OTHER -> "Provider"

resetFlows(s) ==
  [s EXCEPT !.insuranceFlowActive = FALSE,
            !.symptomFlowActive = FALSE,
            !.symptomStep = 0,
            !.symptomResponses = {},
            !.geoStatus = "idle",
            !.userLocation = Null,
            !.providerMatches = Null,
            !.providerDiscoveryMode = "idle",
            !.providerDiscoveryContext = Null,
            !.searchSuggestions = Null,
            !.lastSuggestionQuery = ""]

\* fetchProvidersByType up to its await; intentTag is NULL, "next_available"
\* or "insurance_filter"
fetchProvidersByType(s, id, providerType, query, locationLabel, intentTag) ==
  Await([s EXCEPT !.providerDiscoveryMode = "finding",
                  !.providerMatches = Null,
                  !.providerDiscoveryContext =
                     Some([providerType |-> providerType,
                           locationLabel |-> locationLabel, title |-> NULL])],
        id, "handleSend", "providers", query,
        [providerType |-> providerType, locationLabel |-> locationLabel,
         intentTag |-> intentTag])

\* fetchProvidersByType after its await, with the updates of its finally
\* block made at the end of the try block instead
fetchProvidersByTypeSettledWithoutFinally(s, t, r) ==
  IF r.ok
    THEN [Resume(s, t) EXCEPT
            !.providerMatches = Some(r.body),
            !.messages = @ \o << MsgKind("assistant", "Here are options.", "text", t.id),
                                 MsgKind("assistant", "", "providers", t.id) >>,
            !.loading = FALSE,
            !.providerDiscoveryMode = "idle"]
    ELSE [Resume(s, t) EXCEPT
            !.messages = Append(@, Msg("assistant", "Error: " \o r.body, t.id))]

fetchProvidersByTypeSettled(s, t, r) ==
  LET specialtyLabel == toLowerCase(formatSpecialty(t.arg.providerType))
      intro ==
        IF t.arg.intentTag = "insurance_filter"
          THEN "Here are " \o specialtyLabel \o " options " \o t.arg.locationLabel
                 \o " that accept " \o t.text \o "."
        ELSE IF t.arg.intentTag = "next_available"
          THEN "Here are the next available " \o specialtyLabel \o " appointments "
                 \o t.arg.locationLabel \o " for \"" \o t.text \o "\"."
        ELSE "Sure - here are " \o specialtyLabel \o " options " \o t.arg.locationLabel
                 \o " based on \"" \o t.text \o "\"."
      done ==
        IF r.ok
          THEN [s EXCEPT !.providerMatches = Some(r.body),
                         !.messages = @ \o << MsgKind("assistant", intro, "text", t.id),
                                              MsgKind("assistant", "", "providers", t.id) >>]
          ELSE [s EXCEPT !.messages = Append(@, Msg("assistant", "Error: " \o r.body, t.id))]
  IN [Resume(done, t) EXCEPT !.loading = FALSE, !.providerDiscoveryMode = "idle"]

\* fetchProvidersByName up to its await
fetchProvidersByName(s, id, query) ==
  Await([s EXCEPT !.providerDiscoveryMode = "finding", !.providerMatches = Null],
        id, "handleSend", "provider-search", query, NoArg)

\* handleSend from the specialty rule on (after the name rule did not end the
\* turn), up to the next await
handleSendRest(s, id, text) ==
  LET c == Classified[text]
      providerIntent == c.detectProviderSearch
      wantsNextAvailable == c.isNextAvailableRequest
      label == c.normalizeLocationLabel
      inferredLocation ==
        IF providerIntent # Null /\ The(providerIntent).locationLabel # ""
          THEN The(providerIntent).locationLabel
        ELSE IF label # NULL /\ label # "" THEN label
        ELSE "near you"
  IN IF providerIntent # Null \/ wantsNextAvailable
       THEN fetchProvidersByType(s, id,
              IF providerIntent # Null THEN The(providerIntent).providerType ELSE "primary_care",
              text, inferredLocation,
              IF wantsNextAvailable THEN "next_available" ELSE NULL)
     ELSE IF c.isSymptomQuery
       THEN [s EXCEPT !.loading = FALSE,
                      !.symptomFlowActive = TRUE,
                      !.messages = Append(@, Msg("assistant",
                         "Let's run a quick symptom check to match an urgent care slot and geolocate you automatically.",
                         id))]
     ELSE Await(s, id, "handleSend", "search-intent", text,
                [inferredLocation |-> inferredLocation,
                 wantsNextAvailable |-> wantsNextAvailable])

\* fetchProvidersByName with setLoading(false) in the catch block only
fetchProvidersByNameSettledWithoutFinally(s, t, r) ==
  IF ~r.ok
    THEN handleSendRest(
           [Resume(s, t) EXCEPT
              !.messages = Append(@, Msg("assistant", "Error: " \o r.body, t.id)),
              !.loading = FALSE,
              !.providerDiscoveryMode = "idle"],
           t.id, t.text)
  ELSE LET resp == r.body
           exact == Len(resp.providers) > 0
           matches == IF exact THEN resp.providers ELSE resp.suggestions
           done ==
             IF Len(matches) = 0
               THEN [s EXCEPT !.messages = Append(@, Msg("assistant",
                       "I couldn't find any providers matching \"" \o t.text
                         \o "\". Try another name or add more details.", t.id))]
               ELSE [s EXCEPT
                       !.providerMatches = Some(matches),
                       !.providerDiscoveryContext =
                          Some([providerType |-> matches[1].provider_type,
                                locationLabel |->
                                  IF exact THEN "for \"" \o t.text \o "\""
                                  ELSE "for names similar to \"" \o t.text \o "\"",
                                title |-> IF exact THEN "Matching providers"
                                          ELSE "Suggested providers"]),
                       !.messages = @ \o
                          << MsgKind("assistant",
                               IF exact THEN "Here are providers matching \"" \o t.text \o "\"."
                               ELSE "No exact match for \"" \o t.text
                                      \o "\" - showing similar provider names.",
                               "text", t.id),
                             MsgKind("assistant", "", "providers", t.id) >>]
       IN [Resume(done, t) EXCEPT !.providerDiscoveryMode = "idle"]

\* fetchProvidersByName after its await, and what handleSend does with its
\* result (handled = true ends the turn)
fetchProvidersByNameSettled(s, t, r) ==
  IF ~r.ok
    THEN handleSendRest(
           [Resume(s, t) EXCEPT
              !.messages = Append(@, Msg("assistant", "Error: " \o r.body, t.id)),
              !.loading = FALSE,
              !.providerDiscoveryMode = "idle"],
           t.id, t.text)
  ELSE LET resp == r.body
           exact == Len(resp.providers) > 0
           matches == IF exact THEN resp.providers ELSE resp.suggestions
           done ==
             IF Len(matches) = 0
               THEN [s EXCEPT !.messages = Append(@, Msg("assistant",
                       "I couldn't find any providers matching \"" \o t.text
                         \o "\". Try another name or add more details.", t.id))]
               ELSE [s EXCEPT
                       !.providerMatches = Some(matches),
                       !.providerDiscoveryContext =
                          Some([providerType |-> matches[1].provider_type,
                                locationLabel |->
                                  IF exact THEN "for \"" \o t.text \o "\""
                                  ELSE "for names similar to \"" \o t.text \o "\"",
                                title |-> IF exact THEN "Matching providers"
                                          ELSE "Suggested providers"]),
                       !.messages = @ \o
                          << MsgKind("assistant",
                               IF exact THEN "Here are providers matching \"" \o t.text \o "\"."
                               ELSE "No exact match for \"" \o t.text
                                      \o "\" - showing similar provider names.",
                               "text", t.id),
                             MsgKind("assistant", "", "providers", t.id) >>]
       IN [Resume(done, t) EXCEPT !.loading = FALSE, !.providerDiscoveryMode = "idle"]

\* handleSend, first part: guard, reset of the flows, user message
handleSendBeginChat(s, customText) ==
  LET raw == IF customText = Null THEN s.input ELSE The(customText)
      text == Trimmed[raw]
      cleared == [s EXCEPT !.input = IF customText = Null THEN "" ELSE @]
  IN IF Len(text) = 0 THEN s
     ELSE [resetFlows(cleared) EXCEPT
             !.messages = Append(@, Msg("user", text, s.nextOp)),
             !.loading = TRUE,
             !.frame = Some([text |-> text, id |-> s.nextOp]),
             !.nextOp = @ + 1,
             !.used.turns = @ + 1]

\* handleSend, second part: the classifier cascade up to the first await
handleSendClassifyChat(s) ==
  LET f == The(s.frame)
      text == f.text
      s0 == [s EXCEPT !.frame = Null]
      NotFilter(msg) == msg.kind # "insurance_filter"
      c == Classified[text]
  IN IF c.isInsuranceQuery
       THEN [s0 EXCEPT
               !.loading = FALSE,
               !.selectedInsurance = Null,
               !.insuranceFlowActive = TRUE,
               !.messages = SelectSeq(@, NotFilter) \o
                  << Msg("assistant",
                       "I can help find doctors who accept your insurance. Pick your plan from the list below to continue.",
                       f.id),
                     MsgKind("assistant", "", "insurance_filter", f.id) >>]
     ELSE IF c.looksLikeProviderName
       THEN fetchProvidersByName(s0, f.id, text)
     ELSE handleSendRest(s0, f.id, text)

\* the escalation branch of handleSend: the safety message or the default
escalationReply(s, t, intentResp) ==
  [s EXCEPT !.messages = Append(@, Msg("assistant",
      IF intentResp.safety_message # Null
        THEN The(intentResp.safety_message)
        ELSE "For safety, please call 911 or visit the nearest emergency room.",
      t.id))]

\* genericReply attaching every outstanding follow-up prompt
genericReplyAllFollowUps(s, t, intentResp) ==
  LET urgency == detectUrgency(t.text)
      modePreference == detectModePreference(t.text)
      patientGroup == detectPatientGroup(t.text)
      reasonLabel == IF intentResp.visit_reason_label = Null THEN "your request"
                     ELSE The(intentResp.visit_reason_label)
      hasType == intentResp.recommended_provider_type # Null
      affirmations ==
        << "I can help with " \o reasonLabel \o "." >> \o
        (IF hasType
           THEN << "Most patients start with "
                     \o toLowerCase(formatSpecialty(The(intentResp.recommended_provider_type)))
                     \o " for this." >>
           ELSE << >>)
      primarySignals ==
        (IF patientGroup = "pediatric"
           THEN << "I'll look for pediatric-friendly options." >> ELSE << >>) \o
        (IF modePreference = "virtual" THEN << "I'll focus on virtual visits." >>
         ELSE IF modePreference = "in_person" THEN << "I'll focus on in-person visits." >>
         ELSE << >>) \o
        (IF urgency = "urgent" THEN << "Sounds urgent-I'll prioritize today or soon." >>
         ELSE IF urgency = "routine"
           THEN << "Sounds routine-I'll find the next available times." >>
         ELSE << >>)
      schedulingPrompt ==
        IF t.arg.wantsNextAvailable
          THEN "I'll pull the earliest available appointments " \o t.arg.inferredLocation \o "."
          ELSE "I recommend showing the soonest available appointments "
                 \o t.arg.inferredLocation \o "."
      followUps ==
        (IF modePreference = NULL
           THEN << [text |-> "Choose a visit format so I can tailor the schedule.",
                    options |-> << "In-person", "Virtual" >>] >> ELSE << >>) \o
        (IF urgency = NULL
           THEN << [text |-> "Pick how soon you'd like care.",
                    options |-> << "Today or soon", "Routine" >>] >> ELSE << >>) \o
        (IF patientGroup = NULL
           THEN << [text |-> "Select who the visit is for.",
                    options |-> << "Adult", "Child" >>] >> ELSE << >>) \o
        [i \in 1..Len(intentResp.follow_up_questions) |->
           [text |-> intentResp.follow_up_questions[i],
            options |-> << "Share details", "Skip for now" >>]]
      reply == Msg("assistant",
                   join(affirmations \o primarySignals \o << schedulingPrompt >>, " "), t.id)
  IN [s EXCEPT
        !.messages = @ \o << reply >> \o
           [i \in 1..Len(followUps) |->
              MsgOptions("assistant", followUps[i].text, followUps[i].options, t.id)]]

\* the generic-intent branch of handleSend: the synthesized reply and the
\* first follow-up prompt
genericReply(s, t, intentResp) ==
  LET urgency == detectUrgency(t.text)
      modePreference == detectModePreference(t.text)
      patientGroup == detectPatientGroup(t.text)
      reasonLabel == IF intentResp.visit_reason_label = Null THEN "your request"
                     ELSE The(intentResp.visit_reason_label)
      hasType == intentResp.recommended_provider_type # Null
      affirmations ==
        << "I can help with " \o reasonLabel \o "." >> \o
        (IF hasType
           THEN << "Most patients start with "
                     \o toLowerCase(formatSpecialty(The(intentResp.recommended_provider_type)))
                     \o " for this." >>
           ELSE << >>)
      primarySignals ==
        (IF patientGroup = "pediatric"
           THEN << "I'll look for pediatric-friendly options." >> ELSE << >>) \o
        (IF modePreference = "virtual" THEN << "I'll focus on virtual visits." >>
         ELSE IF modePreference = "in_person" THEN << "I'll focus on in-person visits." >>
         ELSE << >>) \o
        (IF urgency = "urgent" THEN << "Sounds urgent-I'll prioritize today or soon." >>
         ELSE IF urgency = "routine"
           THEN << "Sounds routine-I'll find the next available times." >>
         ELSE << >>)
      schedulingPrompt ==
        IF t.arg.wantsNextAvailable
          THEN "I'll pull the earliest available appointments " \o t.arg.inferredLocation \o "."
          ELSE "I recommend showing the soonest available appointments "
                 \o t.arg.inferredLocation \o "."
      followUps ==
        (IF modePreference = NULL
           THEN << [text |-> "Choose a visit format so I can tailor the schedule.",
                    options |-> << "In-person", "Virtual" >>] >> ELSE << >>) \o
        (IF urgency = NULL
           THEN << [text |-> "Pick how soon you'd like care.",
                    options |-> << "Today or soon", "Routine" >>] >> ELSE << >>) \o
        (IF patientGroup = NULL
           THEN << [text |-> "Select who the visit is for.",
                    options |-> << "Adult", "Child" >>] >> ELSE << >>) \o
        [i \in 1..Len(intentResp.follow_up_questions) |->
           [text |-> intentResp.follow_up_questions[i],
            options |-> << "Share details", "Skip for now" >>]]
      reply == Msg("assistant",
                   join(affirmations \o primarySignals \o << schedulingPrompt >>, " "), t.id)
  IN [s EXCEPT
        !.messages = @ \o << reply >> \o
           (IF Len(followUps) > 0
              THEN << MsgOptions("assistant", followUps[1].text, followUps[1].options, t.id) >>
              ELSE << >>)]

\* handleSend after the search-intent await, with the return of the
\* escalation branch left out
searchIntentSettledFallingThrough(s, t, r) ==
  IF ~r.ok
    THEN [Resume(s, t) EXCEPT
            !.messages = Append(@, Msg("assistant", "Error: " \o r.body, t.id)),
            !.loading = FALSE]
  ELSE IF r.body.escalate
    THEN [Resume(genericReply(escalationReply(s, t, r.body), t, r.body), t) EXCEPT
            !.loading = FALSE]
  ELSE [Resume(genericReply(s, t, r.body), t) EXCEPT !.loading = FALSE]

\* handleSend after the search-intent await
searchIntentSettledChat(s, t, r) ==
  IF ~r.ok
    THEN [Resume(s, t) EXCEPT
            !.messages = Append(@, Msg("assistant", "Error: " \o r.body, t.id)),
            !.loading = FALSE]
  ELSE IF r.body.escalate
    THEN [Resume(escalationReply(s, t, r.body), t) EXCEPT !.loading = FALSE]
  ELSE [Resume(genericReply(s, t, r.body), t) EXCEPT !.loading = FALSE]

\* the success callback of getCurrentPosition up to its await of
\* reverseGeocode; the failure callback
geolocationSettledChat(s, t, r) ==
  IF r.ok
    THEN [Resume(s, t) EXCEPT
            !.tasks = @ \cup {Task(t.id, "geolocation", "reverse-geocode", "", [coords |-> r.body], t.cause)}]
    ELSE [Resume(s, t) EXCEPT !.geoStatus = "denied"]

\* reverseGeocode rejecting instead of answering the coordinate string:
\* the .then callback of the geolocation effect does not run
reverseGeocodeSettledWithoutFallback(s, t, r) ==
  IF r.ok
    THEN [Resume(s, t) EXCEPT !.userLocation = Some(r.body), !.geoStatus = "granted"]
    ELSE Resume(s, t)

\* after reverseGeocode: its label, or the coordinate string when it has none
reverseGeocodeSettled(s, t, r) ==
  [Resume(s, t) EXCEPT
     !.userLocation = Some(IF r.ok THEN r.body ELSE t.arg.coords),
     !.geoStatus = "granted"]

\* handleSlotSelect appending an overview entry at every selection
handleSlotSelectAlwaysAppending(s, provider, slot) ==
  [s EXCEPT
     !.selectedAppointment = Some([provider |-> provider, slot |-> slot]),
     !.messages = Append(@, MsgKind("assistant", "", "appointment_overview", 0))]

handleSlotSelect(s, provider, slot) ==
  [s EXCEPT
     !.selectedAppointment = Some([provider |-> provider, slot |-> slot]),
     !.messages =
        IF \E i \in 1..Len(@) : @[i].kind = "appointment_overview" THEN @
        ELSE Append(@, MsgKind("assistant", "", "appointment_overview", 0))]

confirmSelectedAppointment(s) ==
  IF s.selectedAppointment = Null THEN s
  ELSE LET provider == The(s.selectedAppointment).provider
           slot == The(s.selectedAppointment).slot
       IN [s EXCEPT
             !.messages = Append(@, MsgKind("assistant",
                "Your " \o (IF slot.mode = "virtual" THEN "virtual" ELSE "in-person")
                  \o " visit with " \o provider.name \o " is set for " \o slot.label
                  \o ". I'll share confirmation details shortly.", "success", 0)),
             !.selectedAppointment = Null]

handleInsuranceSelect(s, planName) ==
  [s EXCEPT
     !.selectedInsurance = Some(planName),
     !.messages = Append(@, MsgOptions("assistant",
        "Great - I'll use " \o planName
          \o ". Now that I know your insurance, what type of care are you looking for?",
        insuranceCareSuggestions, 0))]

\* ------------------------------------------------------------ buildSlots
\* Dates are instants counted in minutes from 2025-01-01T00:00 UTC (the
\* code's milliseconds divided by 60000); the browser's time zone is UTC.
DigitChars == "0123456789"
digit(c) == (CHOOSE i \in 1..10 : CharAt(DigitChars, i) = c) - 1
number2(dd) == 10 * digit(CharAt(dd, 1)) + digit(CharAt(dd, 2))
pad2(n) == CharAt(DigitChars, (n \div 10) + 1) \o CharAt(DigitChars, (n % 10) + 1)
Weekdays == << "Sun", "Mon", "Tue", "Wed", "Thu", "Fri", "Sat" >>

\* new Date("2025-01-DDTHH:MM...").getTime()
dateOf(ts) ==
  ((number2(SubSeq(ts, 9, 10)) - 1) * 24 + number2(SubSeq(ts, 12, 13))) * 60
    + number2(SubSeq(ts, 15, 16))

dayOf(instant) == (instant \div (24 * 60)) + 1
hour24Of(instant) == (instant \div 60) % 24
minuteOf(instant) == instant % 60

\* Date.prototype.toISOString
toISOString(instant) ==
  "2025-01-" \o pad2(dayOf(instant)) \o "T" \o pad2(hour24Of(instant)) \o ":"
    \o pad2(minuteOf(instant)) \o ":00.000Z"

\* toLocaleString(undefined, {weekday: "short", hour: "numeric", minute: "2-digit"})
slotLabel(instant) ==
  Weekdays[((dayOf(instant) + 2) % 7) + 1] \o " "
    \o Hours12[(hour24Of(instant) % 12) + 1] \o ":" \o pad2(minuteOf(instant))
    \o (IF hour24Of(instant) < 12 THEN " AM" ELSE " PM")

minuteOffsets == << 0, 30, 60, 90 >>

\* buildSlots taking the provider's accepts_virtual before its
\* next-available mode
buildSlotsByProviderDefault(provider, now) ==
  LET start == provider.next_available_start
      base == IF start # Null /\ The(start) # "" THEN dateOf(The(start)) ELSE now + 60
      mode == IF provider.accepts_virtual THEN "virtual"
              ELSE IF provider.next_available_mode # Null
                THEN The(provider.next_available_mode)
              ELSE "in_person"
  IN [i \in 1..Len(minuteOffsets) |->
        [iso |-> toISOString(base + minuteOffsets[i]),
         label |-> slotLabel(base + minuteOffsets[i]),
         mode |-> mode]]

\* buildSlots; now = Date.now()
buildSlots(provider, now) ==
  LET start == provider.next_available_start
      base == IF start # Null /\ The(start) # "" THEN dateOf(The(start)) ELSE now + 60
      mode == IF provider.next_available_mode # Null
                THEN The(provider.next_available_mode)
              ELSE IF provider.accepts_virtual THEN "virtual" ELSE "in_person"
  IN [i \in 1..Len(minuteOffsets) |->
        [iso |-> toISOString(base + minuteOffsets[i]),
         label |-> slotLabel(base + minuteOffsets[i]),
         mode |-> mode]]

\* values of Date.now()
Nows == { dateOf("2025-01-06T08:45"), dateOf("2025-01-07T22:40") }

\* ================================================================ actions
WithinBounds(n) ==
  /\ n.used.turns <= MaxTurns
  /\ n.used.holds <= MaxHolds
  /\ n.used.bookings <= MaxBookings
  /\ n.used.avail <= MaxAvail
  /\ n.used.sync <= MaxSyncOps
  /\ n.used.suggest <= MaxSuggest
  /\ Cardinality(n.tasks) <= MaxInFlight

Assign(n) ==
  /\ variant' = n.variant
  /\ hasGeolocation' = n.hasGeolocation
  /\ messages' = n.messages
  /\ input' = n.input
  /\ loading' = n.loading
  /\ intent' = n.intent
  /\ careOptions' = n.careOptions
  /\ selectedCareType' = n.selectedCareType
  /\ availability' = n.availability
  /\ selectedSlot' = n.selectedSlot
  /\ selectedAppointmentPreview' = n.selectedAppointmentPreview
  /\ holdId' = n.holdId
  /\ holdExpiresAt' = n.holdExpiresAt
  /\ bookingStatus' = n.bookingStatus
  /\ providerMatches' = n.providerMatches
  /\ providerDiscoveryMode' = n.providerDiscoveryMode
  /\ providerDiscoveryContext' = n.providerDiscoveryContext
  /\ searchSuggestions' = n.searchSuggestions
  /\ lastSuggestionQuery' = n.lastSuggestionQuery
  /\ timers' = n.timers
  /\ insuranceFlowActive' = n.insuranceFlowActive
  /\ selectedInsurance' = n.selectedInsurance
  /\ selectedAppointment' = n.selectedAppointment
  /\ symptomFlowActive' = n.symptomFlowActive
  /\ symptomStep' = n.symptomStep
  /\ symptomResponses' = n.symptomResponses
  /\ geoStatus' = n.geoStatus
  /\ userLocation' = n.userLocation
  /\ tasks' = n.tasks
  /\ nextOp' = n.nextOp
  /\ used' = n.used
  /\ backendHolds' = n.backendHolds
  /\ backendBookings' = n.backendBookings
  /\ lastHold' = n.lastHold
  /\ escalated' = n.escalated
  /\ call' = call

\* commit the batched updates of one handler run, then run the effects.
\* by = the suspended activation that ran (0 for a click or a keystroke);
\* fresh = it assigned providerMatches a new array.
CommitBy(n, by, fresh) ==
  LET after == Effects(S, n, fresh, by)
  IN WithinBounds(after) /\ Assign(after)

Commit(n) == CommitBy(n, 0, FALSE)

Ok(body) == [ok |-> TRUE, body |-> body]
Failed(reason) == [ok |-> FALSE, body |-> reason]
Outcomes(bodies) == {Ok(b) : b \in bodies} \cup {Failed(e) : e \in ErrorReasons}

\* onChange of the composer
TypeInput(U) ==
  /\ used.turns < MaxTurns
  /\ \E u \in U : u # input /\ Commit([S EXCEPT !.input = u])

\* handleSend up to its first await (or to its end, when it awaits nothing)
handleSendBegin(s, customText) ==
  IF s.variant = "page" THEN handleSendBeginPage(s, customText)
  ELSE handleSendBeginChat(s, customText)

handleSendClassify(s) ==
  IF s.variant = "page" THEN handleSendClassifyPage(s) ELSE handleSendClassifyChat(s)

handleSend(s, customText) ==
  LET begun == handleSendBegin(s, customText)
  IN IF begun.frame = Null THEN begun ELSE handleSendClassify(begun)

\* Enter key (never disabled) or the send button (disabled while loading)
SendFromComposer ==
  /\ \E src \in {"enter", "button"} :
       /\ src = "button" => ~loading
       /\ Commit(handleSend(S, Null))

\* a quick-prompt button (disabled while loading)
SendQuickPrompt(U) ==
  /\ ~loading
  /\ \E p \in quickPrompts(variant) \cap U :
       Commit(handleSend(S, Some(p)))

AwaitedBy(op, ep) == {t \in tasks : t.op = op /\ t.at = ep}

ProvidersRespondPage ==
  /\ variant = "page"
  /\ \E t \in AwaitedBy("handleSend", "providers") :
       \E r \in Outcomes(ProvidersResponses) :
         CommitBy(fetchPrimaryCareProvidersSettled(S, t, r), t.id, r.ok)

SearchIntentRespondPage ==
  /\ variant = "page"
  /\ \E t \in AwaitedBy("handleSend", "search-intent") :
       \E r \in Outcomes(SearchIntentResponses) :
         CommitBy([searchIntentSettledPage(S, t, r) EXCEPT
                     !.escalated = IF r.ok /\ r.body.escalate
                                      THEN @ \cup {[turn |-> t.id, safety_message |-> r.body.safety_message]}
                                      ELSE @],
                  t.id, FALSE)

CareOptionsRespond ==
  /\ \E t \in AwaitedBy("handleSend", "care-options") :
       \E r \in Outcomes(CareOptionsResponses) :
         CommitBy(careOptionsSettled(S, t, r), t.id, FALSE)

\* "Load availability" / "Find urgent care availability" buttons
LoadAvailabilityClick ==
  /\ variant = "page"
  /\ ~loading
  /\ careOptions # Null \/ (symptomFlowActive /\ symptomStep >= Len(symptomQuestions))
  /\ Commit(loadAvailability(S, 0))

AvailabilityRespond ==
  /\ \E t \in AwaitedBy("loadAvailability", "availability") :
       \E r \in Outcomes(AvailabilityResponses) :
         CommitBy(loadAvailabilitySettled(S, t, r), t.id, FALSE)

\* care-type radio of the care options card
SelectCareType ==
  /\ variant = "page"
  /\ careOptions # Null
  /\ \E i \in 1..Len(The(careOptions)) :
       /\ selectedCareType # Some(The(careOptions)[i].provider_type)
       /\ Commit([S EXCEPT !.selectedCareType = Some(The(careOptions)[i].provider_type)])

Prefix(q, n) == SubSeq(q, 1, IF Len(q) < n THEN Len(q) ELSE n)
Elems(q) == {q[i] : i \in 1..Len(q)}

\* a time chip on a provider card: first 3 providers, first 3 of the
\* provider's slots (chips are disabled while loading)
SelectPreview ==
  /\ variant = "page"
  /\ ~loading
  /\ used.sync < MaxSyncOps
  /\ providerMatches # Null /\ availability # Null
  /\ \E p \in Elems(Prefix(The(providerMatches), 3)) :
       LET OfProvider(sl) == sl.provider_id = p.provider_id
       IN \E sl \in Elems(Prefix(SelectSeq(The(availability), OfProvider), 3)) :
            /\ selectedAppointmentPreview # Some(sl)
            /\ Commit([S EXCEPT !.selectedAppointmentPreview = Some(sl),
                                !.used.sync = @ + 1])

\* "Clear" / "Choose another time" on the appointment overview card
ClearPreview ==
  /\ variant = "page"
  /\ selectedAppointmentPreview # Null
  /\ Commit([S EXCEPT !.selectedAppointmentPreview = Null])

\* "Confirm & hold time" on the appointment overview card
HoldPreview ==
  /\ variant = "page"
  /\ ~loading
  /\ selectedAppointmentPreview # Null
  /\ Commit(holdSlot(S, The(selectedAppointmentPreview)))

\* "Hold this time" on one of the first 20 listed slots
HoldListed ==
  /\ variant = "page"
  /\ ~loading
  /\ availability # Null
  /\ \E sl \in Elems(Prefix(The(availability), 20)) :
       Commit(holdSlot(S, sl))

HoldsRespond ==
  /\ \E t \in AwaitedBy("holdSlot", "holds") :
       \/ LET hold == CreateHold(S, t)
              n == holdSlotSettled(S, t, Ok(hold))
          IN CommitBy([n EXCEPT !.backendHolds = @ \cup {hold},
                                !.lastHold = Some(hold.hold_id)], t.id, FALSE)
       \/ \E e \in ErrorReasons : CommitBy(holdSlotSettled(S, t, Failed(e)), t.id, FALSE)

\* the booking handler; its button is disabled while loading
BookAppointment ==
  /\ variant = "page"
  /\ ~loading
  /\ Commit(bookAppointment(S))

AppointmentsRespond ==
  /\ \E t \in AwaitedBy("bookAppointment", "appointments") :
       \/ LET booking == ConfirmBooking(S, t)
              n == bookAppointmentSettled(S, t, Ok(booking))
          IN CommitBy([n EXCEPT !.backendBookings = @ \cup {booking}], t.id, FALSE)
       \/ \E e \in ErrorReasons : CommitBy(bookAppointmentSettled(S, t, Failed(e)), t.id, FALSE)

\* an option button of the current symptom question (disabled while loading)
AnswerSymptom ==
  /\ ~loading
  /\ symptomFlowActive /\ symptomStep < Len(symptomQuestions)
  /\ \E o \in Elems(Prefix(symptomQuestions[symptomStep + 1].options, MaxOptions)) :
       Commit(answerSymptomQuestion(S, o))

\* page: a plan button of the insurance card
SelectInsurancePage ==
  /\ variant = "page"
  /\ insuranceFlowActive
  /\ used.sync < MaxSyncOps
  /\ \E plan \in Elems(Prefix(insurancePlans, MaxPlans)) :
       /\ selectedInsurance # Some(plan)
       /\ Commit([S EXCEPT !.selectedInsurance = Some(plan), !.used.sync = @ + 1])

\* the microphone button (disabled while loading)
VoiceChat ==
  /\ ~loading
  /\ used.sync < MaxSyncOps
  /\ Commit([handleVoiceChat(S) EXCEPT !.used.sync = @ + 1])

GeolocationRespondPage ==
  /\ variant = "page"
  /\ \E t \in AwaitedBy("geolocation", "position") :
       \E r \in {Ok(Coords), Failed("denied")} :
         CommitBy(geolocationSettledPage(S, t, r), t.id, FALSE)

\* chat: /api/provider-search answers the name lookup of a turn
ProviderSearchRespond ==
  /\ variant = "chat"
  /\ \E t \in AwaitedBy("handleSend", "provider-search") :
       \E r \in Outcomes(ProviderSearchResponses) :
         CommitBy(fetchProvidersByNameSettled(S, t, r), t.id, FALSE)

\* chat: /api/providers answers the discovery by specialty of a turn
ProvidersRespondChat ==
  /\ variant = "chat"
  /\ \E t \in AwaitedBy("handleSend", "providers") :
       \E r \in Outcomes(ProvidersResponses) :
         CommitBy(fetchProvidersByTypeSettled(S, t, r), t.id, FALSE)

SearchIntentRespondChat ==
  /\ variant = "chat"
  /\ \E t \in AwaitedBy("handleSend", "search-intent") :
       \E r \in Outcomes(SearchIntentResponses) :
         CommitBy([searchIntentSettledChat(S, t, r) EXCEPT
                     !.escalated = IF r.ok /\ r.body.escalate
                                      THEN @ \cup {[turn |-> t.id, safety_message |-> r.body.safety_message]}
                                      ELSE @],
                  t.id, FALSE)

GeolocationRespondChat ==
  /\ variant = "chat"
  /\ \E t \in AwaitedBy("geolocation", "position") :
       \E r \in {Ok(Coords), Failed("denied")} :
         CommitBy(geolocationSettledChat(S, t, r), t.id, FALSE)

ReverseGeocodeRespond ==
  /\ variant = "chat"
  /\ \E t \in AwaitedBy("geolocation", "reverse-geocode") :
       \E r \in Outcomes(GeocodeLabels) :
         CommitBy(reverseGeocodeSettled(S, t, r), t.id, FALSE)

\* chat: a plan button of the insurance card, rendered by an insurance_filter
\* transcript entry while the insurance flow is active
SelectInsuranceChat ==
  /\ variant = "chat"
  /\ insuranceFlowActive
  /\ \E i \in 1..Len(messages) : messages[i].kind = "insurance_filter"
  /\ used.sync < MaxSyncOps
  /\ \E plan \in Elems(Prefix(insurancePlans, MaxPlans)) :
       Commit([handleInsuranceSelect(S, plan) EXCEPT !.used.sync = @ + 1])

\* chat: the debounce timer of the suggestion lookup fires
SuggestTimerFires ==
  /\ variant = "chat"
  /\ \E tm \in timers : CommitBy(suggestionTimerFired(S, tm), 0, FALSE)

\* chat: /api/provider-search answers a suggestion lookup
SuggestionsRespond ==
  /\ variant = "chat"
  /\ \E t \in AwaitedBy("suggest", "suggestions") :
       \E r \in Outcomes(ProviderSearchResponses) :
         CommitBy(suggestionsSettled(S, t, r), t.id, FALSE)

\* the providers the suggestion panel lists
suggested(resp) ==
  IF Len(resp.providers) > 0 THEN resp.providers ELSE resp.suggestions

\* chat: a name button of the suggestion panel (disabled while loading)
pickSuggestion(s, name) ==
  handleSend([s EXCEPT !.input = name,
                       !.searchSuggestions = Null,
                       !.lastSuggestionQuery = ""],
             Some(name))

PickSuggestion ==
  /\ variant = "chat"
  /\ ~loading
  /\ searchSuggestions # Null /\ lastSuggestionQuery # ""
  /\ \E p \in Elems(suggested(The(searchSuggestions))) :
       Commit(pickSuggestion(S, p.name))

\* the state after construction, for a revision and a browser
InitWith(v, geo, c) ==
  LET n == InitState(v, geo)
  IN /\ variant = n.variant
     /\ hasGeolocation = n.hasGeolocation
     /\ messages = n.messages
     /\ input = n.input
     /\ loading = n.loading
     /\ intent = n.intent
     /\ careOptions = n.careOptions
     /\ selectedCareType = n.selectedCareType
     /\ availability = n.availability
     /\ selectedSlot = n.selectedSlot
     /\ selectedAppointmentPreview = n.selectedAppointmentPreview
     /\ holdId = n.holdId
     /\ holdExpiresAt = n.holdExpiresAt
     /\ bookingStatus = n.bookingStatus
     /\ providerMatches = n.providerMatches
     /\ providerDiscoveryMode = n.providerDiscoveryMode
     /\ providerDiscoveryContext = n.providerDiscoveryContext
     /\ searchSuggestions = n.searchSuggestions
     /\ lastSuggestionQuery = n.lastSuggestionQuery
     /\ timers = n.timers
     /\ insuranceFlowActive = n.insuranceFlowActive
     /\ selectedInsurance = n.selectedInsurance
     /\ selectedAppointment = n.selectedAppointment
     /\ symptomFlowActive = n.symptomFlowActive
     /\ symptomStep = n.symptomStep
     /\ symptomResponses = n.symptomResponses
     /\ geoStatus = n.geoStatus
     /\ userLocation = n.userLocation
     /\ tasks = n.tasks
     /\ nextOp = n.nextOp
     /\ used = n.used
     /\ backendHolds = n.backendHolds
     /\ backendBookings = n.backendBookings
     /\ lastHold = n.lastHold
     /\ escalated = n.escalated
     /\ call = c

InitFor(v, geo) == InitWith(v, geo, Null)

\* =========================================================== specifications
\* the booking lifecycle of the page revision: one primary-care or symptom
\* turn, availability, holds and bookings
BookingPrompts == { "Find a primary care provider near me" }
BookingInputs == { "I have a sore throat" }

InitBooking == InitFor("page", FALSE)

NextBooking ==
  \/ TypeInput(BookingInputs)
  \/ SendFromComposer
  \/ SendQuickPrompt(BookingPrompts)
  \/ ProvidersRespondPage
  \/ LoadAvailabilityClick
  \/ AvailabilityRespond
  \/ SelectPreview
  \/ ClearPreview
  \/ HoldPreview
  \/ HoldListed
  \/ HoldsRespond
  \/ BookAppointment
  \/ AppointmentsRespond

SpecBooking == InitBooking /\ [][NextBooking]_vars

\* the conversational flows of both revisions
FlowInputs ==
  { "Which primary care doctors accept my insurance for a sore throat?",
    "I have a sore throat", "I have chest pain", "Dr Jane Smith",
    "symptom checker", "pcp", "   " }
FlowPrompts ==
  { "Find a primary care provider near me", "Which doctors accept my insurance?" }

InitFlows == \E v \in {"page", "chat"} : \E geo \in BOOLEAN : InitFor(v, geo)

NextFlows ==
  \/ TypeInput(FlowInputs)
  \/ SendFromComposer
  \/ SendQuickPrompt(FlowPrompts)
  \/ ProvidersRespondPage
  \/ SearchIntentRespondPage
  \/ CareOptionsRespond
  \/ AvailabilityRespond
  \/ AnswerSymptom
  \/ SelectInsurancePage
  \/ GeolocationRespondPage
  \/ ProviderSearchRespond
  \/ ProvidersRespondChat
  \/ SearchIntentRespondChat
  \/ GeolocationRespondChat
  \/ ReverseGeocodeRespond
  \/ SelectInsuranceChat

SpecFlows == InitFlows /\ [][NextFlows]_vars

\* the flows under the assumption that the browser eventually invokes one of
\* the two getCurrentPosition callbacks and that reverseGeocode settles
GeolocationResponds ==
  GeolocationRespondPage \/ GeolocationRespondChat \/ ReverseGeocodeRespond

SpecGeolocation == SpecFlows /\ WF_vars(GeolocationResponds)


\* the suggestion lookup of the chat revision's composer
SuggestInputs ==
  { "Dr Jane Smith", "Dr Jane Smith ", "symptom checker", "I have chest pain", "" }

InitSuggest == InitFor("chat", FALSE)

NextSuggest ==
  \/ TypeInput(SuggestInputs)
  \/ SendFromComposer
  \/ SuggestTimerFires
  \/ SuggestionsRespond
  \/ PickSuggestion
  \/ ProviderSearchRespond
  \/ SearchIntentRespondChat

SpecSuggest == InitSuggest /\ [][NextSuggest]_vars

\* chat: a quick-reply option button under a transcript entry (disabled
\* while loading)
ClickOption ==
  /\ variant = "chat"
  /\ ~loading
  /\ \E i \in 1..Len(messages) : \E o \in Elems(messages[i].options) :
       Commit(handleSend(S, Some(o)))

\* the replies of the chat revision: generic-intent turns with none, some
\* and all of the three dimensions stated, and the quick-reply options
ReplyInputs ==
  { "I need a visit", "I want a virtual visit", "I want a virtual visit today",
    "I want a virtual visit today for my child" }

ReplyPrompts == { "Which doctors accept my insurance?" }

InitReplies == InitFor("chat", FALSE)

NextReplies ==
  \/ TypeInput(ReplyInputs)
  \/ SendFromComposer
  \/ SendQuickPrompt(ReplyPrompts)
  \/ SelectInsuranceChat
  \/ ClickOption
  \/ SearchIntentRespondChat
  \/ ProviderSearchRespond
  \/ ProvidersRespondChat

SpecReplies == InitReplies /\ [][NextReplies]_vars

\* chat: a slot button of a provider card; the cards show the first four
\* providers of providerMatches under a providers transcript entry
SelectSlot ==
  /\ variant = "chat"
  /\ providerMatches # Null /\ Len(The(providerMatches)) > 0
  /\ \E i \in 1..Len(messages) : messages[i].kind = "providers"
  /\ \E p \in Elems(Prefix(The(providerMatches), 4)) : \E now \in Nows :
       \E slot \in Elems(Prefix(buildSlots(p, now), MaxSlots)) :
         Commit(handleSlotSelect(S, p, slot))

\* chat: the confirm button of the appointment overview card, rendered by an
\* appointment_overview transcript entry while an appointment is selected
ConfirmAppointment ==
  /\ variant = "chat"
  /\ selectedAppointment # Null
  /\ \E i \in 1..Len(messages) : messages[i].kind = "appointment_overview"
  /\ Cardinality({i \in 1..Len(messages) : messages[i].kind = "success"}) < MaxConfirms
  /\ Commit(confirmSelectedAppointment(S))

AppointmentPrompts == { "Find a primary care provider near me" }

InitAppointments == InitFor("chat", FALSE)

NextAppointments ==
  \/ SendQuickPrompt(AppointmentPrompts)
  \/ ProvidersRespondChat
  \/ SelectSlot
  \/ ConfirmAppointment

SpecAppointments == InitAppointments /\ [][NextAppointments]_vars

\* the helper functions of the chat revision, each applied to an input drawn
\* at the start
SlotStarts ==
  { Null, Some(""), Some("2025-01-06T09:00"), Some("2025-01-06T23:30"),
    Some("2025-01-12T11:45"), Some("2025-01-20T00:00") }

SlotProviders ==
  { Provider("prov_1", "Dr. Adams", "primary_care", virt, start, m) :
      virt \in BOOLEAN, start \in SlotStarts,
      m \in {Null, Some("in_person"), Some("virtual")} }

\* texts naming an insurance term, a doctor term, both or neither
InsuranceWords == { "insurance", "Coverage", "PLAN" }
DoctorWords == { "doctor", "Providers", "accept" }

QueryTexts ==
  {"my " \o i : i \in InsuranceWords}
    \cup {"a " \o d : d \in DoctorWords}
    \cup {d \o " with " \o i : d \in DoctorWords, i \in InsuranceWords}
    \cup {"which " \o i \o " " \o d : d \in DoctorWords, i \in InsuranceWords}
    \cup { "Which doctors accept my insurance?", "pcp insurance",
           "primary care", "hello", "" }

\* texts of one to four words, with and without a title, with characters
\* a name word may and may not contain
NameTexts ==
  { "Dr Jane Smith", "dr jane smith", "DR Jane Smith", "Dr. Jane Smith",
    "  Dr   Jane  Smith ", "Jane Q Smith", "Jane Smith Rodriguez Lee",
    "Dr Jane Smith MD", "Jane Smith", "Anne-Marie St.Clair", "O'Brien",
    "Dr Jane 3rd", "Dr Sm1th Lee", "Jane Sm!th", "-Jane", "4ever",
    " Bob ", "Bob", "Al", "J", "", "   " }

\* texts with urgent wording, routine wording, the negated forms, several
\* of them and none
UrgencyTexts ==
  { "urgent", "I need care ASAP", "today please", "see someone right away",
    "routine", "a checkup", "Routine physical", "not urgent", "non-urgent",
    "It is Not Urgent", "non-urgent checkup", "not urgent but today",
    "virtual visit", "hello", "" }

\* texts that name a child, name an adult, or only contain the letters of
\* a child word inside another word
GroupTexts ==
  { "for my child", "my kid is sick", "for my son", "my daughter",
    "pediatric visit", "for an adult", "Adult checkup", "in person",
    "I need an in person visit", "in-person", "the reason is a cough",
    "one person", "for an adult in person", "virtual visit for my child",
    "hello", "" }

Pending(fn, arg) == Some([fn |-> fn, arg |-> arg, result |-> Null])

InitFunctions ==
  \/ \E p \in SlotProviders : \E now \in Nows :
       InitWith("chat", FALSE, Pending("buildSlots", [provider |-> p, now |-> now]))
  \/ \E v \in {"page", "chat"} : \E text \in QueryTexts :
       InitWith(v, FALSE, Pending("isInsuranceQuery", text))
  \/ \E text \in NameTexts :
       InitWith("chat", FALSE, Pending("looksLikeProviderName", text))
  \/ \E text \in UrgencyTexts :
       InitWith("chat", FALSE, Pending("detectUrgency", text))
  \/ \E text \in GroupTexts :
       InitWith("chat", FALSE, Pending("detectPatientGroup", text))

\* leave every variable but call as it is
Evaluate(result) ==
  /\ call' = Some([The(call) EXCEPT !.result = Some(result)])
  /\ UNCHANGED << variant, hasGeolocation, messages, input, loading, intent,
                  careOptions, selectedCareType, availability, selectedSlot,
                  selectedAppointmentPreview, holdId, holdExpiresAt,
                  bookingStatus, providerMatches, providerDiscoveryMode,
                  providerDiscoveryContext, searchSuggestions,
                  lastSuggestionQuery, timers, insuranceFlowActive,
                  selectedInsurance, selectedAppointment, symptomFlowActive,
                  symptomStep, symptomResponses, geoStatus, userLocation,
                  tasks, nextOp, used, backendHolds, backendBookings,
                  lastHold, escalated >>

Awaiting(fn) == call # Null /\ The(call).fn = fn /\ The(call).result = Null

BuildSlots ==
  /\ Awaiting("buildSlots")
  /\ Evaluate(buildSlots(The(call).arg.provider, The(call).arg.now))

IsInsuranceQuery ==
  /\ Awaiting("isInsuranceQuery")
  /\ Evaluate(IF variant = "page" THEN isInsuranceQueryPage(The(call).arg)
              ELSE isInsuranceQuery(The(call).arg))

LooksLikeProviderName ==
  /\ Awaiting("looksLikeProviderName")
  /\ Evaluate(looksLikeProviderName(The(call).arg))

DetectUrgency ==
  /\ Awaiting("detectUrgency")
  /\ Evaluate(detectUrgency(The(call).arg))

\* the patient group of a text, with its mode preference alongside
DetectPatientGroup ==
  /\ Awaiting("detectPatientGroup")
  /\ Evaluate([group |-> detectPatientGroup(The(call).arg),
               mode |-> detectModePreference(The(call).arg)])

NextFunctions ==
  \/ BuildSlots
  \/ IsInsuranceQuery
  \/ LooksLikeProviderName
  \/ DetectUrgency
  \/ DetectPatientGroup

SpecFunctions == InitFunctions /\ [][NextFunctions]_vars

\* ================================================================== claims
\* the inputs a send can be made with in the flows specification
Sendable == {Null} \cup {Some(u) : u \in FlowInputs \cup FlowPrompts}

\* the flow-local state is at its reset values in s
FlowsReset(s) ==
  /\ s.symptomStep = 0
  /\ s.symptomResponses = {}
  /\ s.geoStatus = "idle"
  /\ s.userLocation = Null
  /\ s.providerMatches = Null
  /\ ~s.insuranceFlowActive
  /\ ~s.symptomFlowActive

\* a step in which handleSend ran past its blank-text guard
TurnStarts == used'.turns = used.turns + 1

\* C1: every non-blank handleSend resets all flow-local state before any
\* classifier runs (symptomStep = 0, no symptom responses, geoStatus idle,
\* no user location, no provider matches, both flow flags false), and the
\* turn it starts retains no symptom answer and no location of the earlier
\* turn; geoStatus leaves idle in that turn only by entering the symptom flow.
C1_ResetBeforeClassify ==
  [][ /\ \A c \in Sendable :
           handleSendBegin(S, c).frame # Null => FlowsReset(handleSendBegin(S, c))
      /\ TurnStarts =>
           /\ symptomStep' = 0
           /\ symptomResponses' = {}
           /\ userLocation' = Null
           /\ providerMatches' = Null
           /\ symptomFlowActive' \/ geoStatus' = "idle" ]_vars

\* a symptom triage was completed with a resolved location, and a later
\* turn with another utterance left none of it
C1_Witness ==
  \E i, j \in 1..Len(messages) :
    /\ i < j
    /\ messages[i].role = "assistant"
    /\ includes(messages[i].text, "Thanks for the details.")
    /\ includes(messages[i].text, "near 4") \/ includes(messages[i].text, "near Des")
    /\ messages[j].role = "user"
    /\ messages[j].text = "I have chest pain"
    /\ FlowsReset(S)

\* the endpoints a turn may call after its search-intent call
FollowUpCalls == {"providers", "provider-search", "care-options", "availability", "holds"}

\* C2: once the search-intent response of a turn had escalate = true, no
\* providers, provider-search, care-options, availability or holds call is
\* issued in that turn: no such call caused by the turn is ever in flight.
C2_NoCallAfterEscalation ==
  \A t \in tasks :
    (\E e \in escalated : e.turn = t.cause) => t.at \notin FollowUpCalls

\* the default emergency-care text of each revision
DefaultSafetyText ==
  IF variant = "page" THEN "This may require immediate care."
  ELSE "For safety, please call 911 or visit the nearest emergency room."

\* the positions of the transcript entries that activation id wrote
WrittenBy(id) == {i \in 1..Len(messages) : messages[i].op = id}

\* the entry an escalated turn closes with: the safety message, or the
\* default text when none was supplied
SafetyEntry(e) ==
  Msg("assistant",
      IF e.safety_message # Null THEN The(e.safety_message) ELSE DefaultSafetyText,
      e.turn)

\* what an escalated turn wrote starts with its user message and ends with
\* its safety entry
EscalatedTurnsEndWithSafety ==
  \A e \in escalated :
    \E i, j \in WrittenBy(e.turn) :
      /\ i < j
      /\ \A k \in WrittenBy(e.turn) : i <= k /\ k <= j
      /\ messages[i].role = "user"
      /\ messages[j] = SafetyEntry(e)

MatchesBoth(text) ==
  /\ Classified[text].isSymptomQuery
  /\ IF variant = "page" THEN Classified[text].isInsuranceQueryPage
     ELSE Classified[text].isInsuranceQuery

\* the prompt that opens the insurance-selection flow
InsurancePrompt ==
  IF variant = "page"
    THEN "Choose from a list of popular insurance plans and I'll find PCPs who accept them."
    ELSE "I can help find doctors who accept your insurance. Pick your plan from the list below to continue."

\* C10: for every utterance for which both isInsuranceQuery and
\* isSymptomQuery are true, handleSend enters the insurance-selection flow
\* (insuranceFlowActive becomes true, the insurance prompt follows the user
\* message) and does not activate the symptom-triage flow in that turn: no
\* symptom flag, no geolocation request, no collaborator call.
C10_InsuranceBeforeSymptom ==
  [][ TurnStarts =>
        \A i \in 1..Len(messages') :
          ( /\ messages'[i].role = "user"
            /\ messages'[i].op = nextOp
            /\ MatchesBoth(messages'[i].text) ) =>
          /\ insuranceFlowActive'
          /\ ~symptomFlowActive'
          /\ symptomStep' = 0
          /\ geoStatus' = "idle"
          /\ tasks' = tasks
          /\ i < Len(messages')
          /\ messages'[i + 1] = Msg("assistant", InsurancePrompt, nextOp) ]_vars

\* a turn with an utterance matching both rules has just been routed
C10_Witness ==
  /\ insuranceFlowActive
  /\ ~symptomFlowActive
  /\ \E i \in 1..Len(messages) :
       /\ messages[i].role = "user"
       /\ MatchesBoth(messages[i].text)
       /\ messages[i].op = nextOp - 1
       /\ i < Len(messages)
       /\ messages[i + 1].text = InsurancePrompt

\* ------------------------------------------------------ hold and booking
\* the hold fields of the session
holdFields == << holdId, holdExpiresAt, selectedSlot >>

\* the record the hold service keeps for hold id h
HoldRecord(h) == CHOOSE b \in backendHolds : b.hold_id = h

\* holdSlot, bookAppointment: the calls that a step issued or that returned
Issued(ep) == {t \in tasks' \ tasks : t.at = ep}
Returned(ep) == {t \in tasks \ tasks' : t.at = ep}

\* C4: bookAppointment invoked while holdId or selectedSlot is null is a
\* no-op: no call is issued and the transcript, loading, bookingStatus and
\* the hold fields (the whole state) are unchanged, also after the effects
\* of the commit; invoked again in that state it leaves the same state.
C4_BookingWithoutHoldIsNoOp ==
  (holdId = Null \/ selectedSlot = Null) =>
    /\ bookAppointment(S) = S
    /\ Effects(S, bookAppointment(S), FALSE, 0) = S
    /\ bookAppointment(bookAppointment(S)) = S

\* a session that booked once, lost its hold to a reload of the
\* availability, and in which the booking handler can be invoked
C4_Witness ==
  /\ holdId = Null
  /\ selectedSlot = Null
  /\ backendBookings # {}
  /\ availability # Null
  /\ ~loading

\* a tracked hold id is one the hold service returned for the provider and
\* start time of the selected slot
HoldMatchesSlot ==
  holdId # Null =>
    /\ selectedSlot # Null
    /\ \E b \in backendHolds :
         /\ b.hold_id = The(holdId)
         /\ b.provider_id = The(selectedSlot).provider_id
         /\ b.start = The(selectedSlot).start

\* every confirmed appointment is for the provider and start time of the
\* slot its hold was created for
BookingsMatchHolds ==
  \A a \in backendBookings :
    /\ a.provider_id = HoldRecord(a.hold_id).provider_id
    /\ a.start = HoldRecord(a.hold_id).start

\* C5: whenever holdId is non-null, selectedSlot is the (provider id, start
\* time) slot for which that hold id was returned, the booking request
\* carries exactly the tracked hold id, and a booking confirmed for it is
\* for that slot's provider and start time, also when holdSlot calls overlap.
C5_HoldMatchesSlot ==
  [][ /\ HoldMatchesSlot'
      /\ BookingsMatchHolds'
      /\ \A t \in Issued("appointments") :
           /\ HoldMatchesSlot
           /\ holdId # Null
           /\ t.arg.hold_id = The(holdId) ]_vars

\* two holdSlot calls overlapped: the hold of the later call is tracked,
\* with its slot, while the earlier call is still pending for another slot
C5_Witness ==
  /\ holdId # Null
  /\ HoldMatchesSlot
  /\ \E t \in tasks :
       /\ t.at = "holds"
       /\ t.arg.slot # The(selectedSlot)
       /\ \E i \in 1..Len(messages) :
            /\ messages[i].op > t.id
            /\ includes(messages[i].text, "Holding ")

\* C6: after bookAppointment succeeds the hold is cleared: holdId is null
\* in the resulting state, so the same hold cannot be booked twice.
C6_HoldClearedAfterBooking ==
  [][ backendBookings' # backendBookings => holdId' = Null ]_vars

\* C7: when the booking call fails, bookingStatus becomes
\* "Booking failed: <reason>", holdId, holdExpiresAt and selectedSlot keep
\* their values, the transcript gains no entry, and bookAppointment can be
\* invoked again with the same hold.
C7_BookingFailureKeepsHold ==
  [][ \A t \in Returned("appointments") :
        backendBookings' = backendBookings =>
          /\ \E e \in ErrorReasons : bookingStatus' = Some("Booking failed: " \o e)
          /\ UNCHANGED holdFields
          /\ UNCHANGED messages
          /\ ~(\E u \in tasks' : u.id = t.id)
          /\ (holdId # Null /\ selectedSlot # Null) =>
               (\E u \in bookAppointment(S).tasks \ tasks : u.arg.hold_id = The(holdId))' ]_vars

\* a booking call failed and left the hold it was made for tracked
C7_Witness ==
  /\ \E e \in ErrorReasons : bookingStatus = Some("Booking failed: " \o e)
  /\ holdId # Null
  /\ selectedSlot # Null
  /\ ~loading
  /\ backendBookings = {}

\* C8: when the hold-creation call fails, bookingStatus becomes
\* "Hold failed: <reason>" and holdSlot has altered neither holdId,
\* holdExpiresAt, selectedSlot nor the transcript, from its invocation to
\* its failure; a hold that was already tracked stays tracked.
C8_HoldFailureAltersNothing ==
  [][ /\ \A t \in Issued("holds") :
           /\ UNCHANGED holdFields
           /\ UNCHANGED messages
      /\ \A t \in Returned("holds") :
           backendHolds' = backendHolds =>
             /\ \E e \in ErrorReasons : bookingStatus' = Some("Hold failed: " \o e)
             /\ UNCHANGED holdFields
             /\ UNCHANGED messages ]_vars

\* a hold call failed while an earlier hold is tracked, which stays tracked
C8_Witness ==
  /\ \E e \in ErrorReasons : bookingStatus = Some("Hold failed: " \o e)
  /\ holdId # Null
  /\ holdId = lastHold
  /\ used.holds = 2

\* C9: the session tracks at most one hold: holdId, holdExpiresAt and
\* selectedSlot refer only to the most recently completed successful hold;
\* no earlier hold id is kept in the session state.
C9_OnlyLatestHoldTracked ==
  /\ holdId # Null =>
       /\ holdId = lastHold
       /\ holdExpiresAt = Some(HoldRecord(The(holdId)).expires_at)
       /\ selectedSlot # Null
       /\ The(selectedSlot).provider_id = HoldRecord(The(holdId)).provider_id
       /\ The(selectedSlot).start = HoldRecord(The(holdId)).start
  /\ holdExpiresAt # Null => holdId # Null
  /\ selectedSlot # Null => holdId # Null

\* two holds were created one after the other for different slots, and the
\* session tracks the second
C9_Witness ==
  /\ Cardinality(backendHolds) = 2
  /\ holdId = Some(HoldIds[2])
  /\ lastHold = holdId
  /\ \E b \in backendHolds :
       b.hold_id = HoldIds[1] /\ b.start # The(selectedSlot).start

\* ------------------------------------------------------- name lookup, flows
\* a provider-search answer that succeeded with no match and no suggestion
NothingFound == Ok([providers |-> << >>, suggestions |-> << >>])

\* activation id still runs in s: it awaits a call of the later rules
\* (specialty / next-available, generic intent) or has entered the symptom flow
TurnContinues(s, id) ==
  \/ \E u \in s.tasks : u.id = id /\ u.at \in {"providers", "search-intent"}
  \/ s.symptomFlowActive

\* C11: when the name lookup of a name-shaped utterance succeeds with neither
\* matches nor suggestions, handleSend does not end the turn: it goes on to
\* the specialty / next-available, symptom and generic-intent rules.
C11_EmptyNameLookupFallsThrough ==
  \A t \in AwaitedBy("handleSend", "provider-search") :
    TurnContinues(fetchProvidersByNameSettled(S, t, NothingFound), t.id)

\* C12: in every reachable state, also while calls of overlapping turns are
\* pending, at most one flow is active: insuranceFlowActive and
\* symptomFlowActive are never both true, and neither is true while
\* providerDiscoveryMode is "finding".
C12_AtMostOneFlow ==
  /\ ~(insuranceFlowActive /\ symptomFlowActive)
  /\ providerDiscoveryMode = "finding" => ~insuranceFlowActive /\ ~symptomFlowActive

\* ---------------------------------------------------------------- transcript
\* sequence p is a prefix of sequence q
IsPrefix(p, q) == Len(p) <= Len(q) /\ SubSeq(q, 1, Len(p)) = p

\* C13: the transcript is append-only: every step leaves the previous
\* message sequence as a prefix of the new one; no entry is removed,
\* replaced or reordered.
C13_TranscriptAppendOnly ==
  [][ IsPrefix(messages, messages') ]_vars

\* the activations that are user turns: those that wrote a user message
TurnIds == {messages[i].op : i \in {k \in 1..Len(messages) : messages[k].role = "user"}}

\* C14: if turn A is initiated before turn B, every transcript entry
\* produced by A (its user message and its replies) precedes every entry
\* produced by B, whatever order their collaborator responses arrive in.
C14_TurnOrderKept ==
  \A i, j \in 1..Len(messages) :
    (i < j /\ messages[i].op \in TurnIds /\ messages[j].op \in TurnIds)
      => messages[i].op <= messages[j].op

\* ------------------------------------------------------------ stale results
\* a newer handleSend ran after activation id was started
Superseded(id) == \E k \in TurnIds : k > id

\* the calls a turn or a user action makes (not the geolocation requests)
ActionCalls ==
  {"providers", "provider-search", "search-intent", "care-options",
   "availability", "holds", "appointments"}

\* C15: a collaborator response that belongs to a turn or action superseded
\* by a newer handleSend is discarded: it appends nothing to the transcript
\* and sets no session state (provider matches, discovery context, intent,
\* care options, hold id, selected slot).
C15_StaleResponseDiscarded ==
  [][ \A t \in tasks \ tasks' :
        (t.at \in ActionCalls /\ Superseded(t.id)) =>
          UNCHANGED << messages, providerMatches, providerDiscoveryContext,
                       intent, careOptions, holdId, selectedSlot >> ]_vars

\* C16: a geolocation result (success callback, failure callback or
\* reverse-geocode completion) that arrives after a later user turn has
\* reset the flows changes neither geoStatus nor userLocation.
C16_StaleGeolocationIgnored ==
  [][ \A t \in tasks \ tasks' :
        (t.op = "geolocation" /\ Superseded(t.id)) =>
          UNCHANGED << geoStatus, userLocation >> ]_vars

\* ------------------------------------------------------- suggestion lookup
\* the suggestion requests whose response arrived in this step
SuggestionsReturned == {t \in tasks : t.op = "suggest" /\ ~(\E u \in tasks' : u.id = t.id)}

\* the step committed a suggestion response
SuggestionsCommitted ==
  /\ SuggestionsReturned # {}
  /\ searchSuggestions' # Null
  /\ << searchSuggestions, lastSuggestionQuery >>' # << searchSuggestions, lastSuggestionQuery >>

\* C17: a suggestion response is committed (searchSuggestions and
\* lastSuggestionQuery set) only if the query it was issued for equals the
\* trimmed input at the moment it arrives; so whenever lastSuggestionQuery
\* is non-empty it equals the current trimmed input.
C17_SuggestionsMatchInput ==
  [][ /\ SuggestionsCommitted =>
           \A t \in SuggestionsReturned :
             /\ t.text = Trimmed[input]
             /\ lastSuggestionQuery' = t.text
      /\ (lastSuggestionQuery # "" => lastSuggestionQuery = Trimmed[input])' ]_vars

\* the suggestion requests issued in this step
SuggestionsIssued == {t \in tasks' : t.op = "suggest" /\ ~(\E u \in tasks : u.id = t.id)}

\* text is one the suggestion lookup may be made for
Suggestible(text) == Len(text) >= 3 /\ Classified[text].looksLikeProviderName

\* every pending debounce timer was set for the present input
TimersAreCurrent ==
  \A tm \in timers :
    tm.input = input /\ tm.query = Trimmed[input] /\ Suggestible(tm.query)

\* C18: when the input changes before the debounce timer fires, the pending
\* timer is cancelled and no provider-search request is issued for the
\* superseded input; a request is issued only for an input that stayed
\* unchanged for the whole delay (its timer was pending and the input is
\* still the one it was set for), has trimmed length >= 3 and is name-shaped.
C18_DebounceCancelsSuperseded ==
  [][ /\ TimersAreCurrent'
      /\ Cardinality(timers') <= 1
      /\ input' # input => timers' \cap timers = {}
      /\ \A t \in SuggestionsIssued :
           /\ [query |-> t.text, input |-> t.arg.input] \in timers
           /\ input' = input /\ t.arg.input = input
           /\ t.text = Trimmed[input]
           /\ Suggestible(t.text) ]_vars

\* a pending timer was cleared by a change of the input, and the only
\* request ever issued is the one for the present input
C18_Witness ==
  /\ used.cleared = 1
  /\ used.suggest = 1
  /\ \E t \in tasks :
       /\ t.op = "suggest" /\ ~t.arg.cancelled
       /\ t.text = Trimmed[input]

\* ------------------------------------------------ discovery mode, loading
\* the provider-discovery calls (by specialty or by name) of a set of tasks
Discovery(ts) ==
  {t \in ts : t.op = "handleSend" /\ t.at \in {"providers", "provider-search"}}

\* C19: every provider-discovery call returns providerDiscoveryMode to
\* "idle" when it completes, whether it succeeds, returns an empty result or
\* fails: the mode is "finding" only while a discovery call is in flight (a
\* turn whose name lookup failed may have started its discovery by specialty
\* in the same step).
C19_DiscoveryModeReturnsToIdle ==
  [][ /\ \A t \in Discovery(tasks) \ Discovery(tasks') :
           \/ providerDiscoveryMode' = "idle"
           \/ \E u \in Discovery(tasks') \ Discovery(tasks) : u.id = t.id
      /\ (providerDiscoveryMode = "finding" => Discovery(tasks) # {})' ]_vars

\* discovery calls completed in all three ways (providers found, empty
\* answer, failure) and the mode is idle
C19_Witness ==
  /\ providerDiscoveryMode = "idle"
  /\ Discovery(tasks) = {}
  /\ \E i, j \in 1..Len(messages) :
       /\ i < j
       /\ includes(messages[i].text, "Error: ")
       /\ messages[j].kind = "providers"

\* C20: loading is true in every state in which a collaborator call started
\* by a user action (search-intent, care-options, providers, provider-search
\* made by a turn, availability, holds, appointments) is in flight, also for
\* a call made after an earlier call of the same turn failed.
C20_LoadingWhileCallInFlight ==
  \A t \in tasks : t.at \in ActionCalls => loading

\* ---------------------------------------------------------- one turn at a time
\* the turns whose collaborator call chain is pending
TurnsInFlight == {t.id : t \in {u \in tasks : u.op = "handleSend"}}

\* C21: a second user turn is never started while a previous turn's call
\* chain is pending: handleSend does not run while loading is true, and at
\* most one turn's call chain is in flight at any time.
C21_OneTurnAtATime ==
  [][ /\ TurnStarts => ~loading
      /\ Cardinality(TurnsInFlight') <= 1 ]_vars

\* ------------------------------------------------------------- geolocation
\* C22: geoStatus only moves forward along idle -> locating -> granted or
\* denied (idle -> denied when geolocation is unavailable); the only other
\* change is made by a user turn resetting the flows. Granted never becomes
\* denied, denied never becomes granted and neither returns to locating
\* without such a reset in between.
C22_GeoStatusMovesForward ==
  [][ geoStatus' # geoStatus =>
        \/ TurnStarts
        \/ geoStatus = "idle" /\ geoStatus' \in {"locating", "denied"}
        \/ geoStatus = "locating" /\ geoStatus' \in {"granted", "denied"} ]_vars

\* the pending geolocation requests (position, reverse geocoding)
GeoPending(ts) == {t \in ts : t.op = "geolocation"}

\* geoStatus is locating only while a request is pending; without
\* geolocation it is never locating and is denied as soon as the symptom
\* flow is active; granted comes with a label
GeoStatusSettles ==
  /\ geoStatus = "locating" => GeoPending(tasks) # {}
  /\ ~hasGeolocation => /\ geoStatus \in {"idle", "denied"}
                        /\ symptomFlowActive => geoStatus = "denied"
  /\ geoStatus = "granted" => userLocation # Null

\* what a callback leaves: denied when refused, granted with a label when a
\* position was obtained (chat: after reverse geocoding, also when it failed)
CallbackSettles ==
  \A t \in GeoPending(tasks) \ GeoPending(tasks') :
    IF t.at = "reverse-geocode"
      THEN geoStatus' = "granted" /\ userLocation' # Null
      ELSE \/ geoStatus' = "denied"
           \/ geoStatus' = "granted" /\ userLocation' # Null
           \/ \E u \in GeoPending(tasks') \ GeoPending(tasks) :
                u.id = t.id /\ u.at = "reverse-geocode"

\* C23: after the symptom flow is entered geoStatus does not stay locating
\* forever, provided the browser invokes a callback: without geolocation it
\* becomes denied at once and never locating, a refused request leaves
\* denied, and an obtained position leaves granted with a non-null label
\* even when reverse geocoding fails (coordinate string).
C23_GeolocationSettles ==
  /\ []GeoStatusSettles
  /\ [][CallbackSettles]_vars
  /\ (geoStatus = "locating") ~> (geoStatus # "locating")

\* chat: reverse geocoding failed and the coordinate string is the label
C23_Witness ==
  /\ variant = "chat"
  /\ geoStatus = "granted"
  /\ userLocation = Some(Coords)
  /\ GeoPending(tasks) = {}

\* ------------------------------------------------------------ symptom flow
\* a question of the symptom card is on screen with its buttons enabled
QuestionOpen ==
  symptomFlowActive /\ ~loading /\ symptomStep < Len(symptomQuestions)

\* C24: geolocation never blocks triage: whenever a question is open its
\* option buttons are enabled and answering advances the question index,
\* in every geoStatus (idle, locating, granted, denied).
C24_GeolocationNeverBlocksTriage ==
  QuestionOpen =>
    /\ ENABLED AnswerSymptom
    /\ \A o \in Elems(Prefix(symptomQuestions[symptomStep + 1].options, MaxOptions)) :
         answerSymptomQuestion(S, o).symptomStep = symptomStep + 1

\* the flow was completed while the geolocation request was still pending
C24_Witness ==
  /\ symptomFlowActive
  /\ symptomStep = Len(symptomQuestions)
  /\ geoStatus = "locating"
  /\ GeoPending(tasks) # {}

\* --------------------------------------------------------- helper functions
\* the evaluated calls of fn
Evaluated(fn) ==
  {c \in call : c.fn = fn /\ c.result # Null}

\* the instant buildSlots counts from, and the mode of its slots
ExpectedBase(a) ==
  IF a.provider.next_available_start \in {Null, Some("")}
    THEN a.now + 60
    ELSE dateOf(The(a.provider.next_available_start))

ExpectedMode(p) ==
  IF p.next_available_mode # Null THEN The(p.next_available_mode)
  ELSE IF p.accepts_virtual THEN "virtual" ELSE "in_person"

\* C25: buildSlots returns exactly 4 slots at 0, 30, 60 and 90 minutes from
\* the provider's next-available timestamp, or from now + 1 hour when the
\* provider has none; all 4 carry the same mode: the provider's
\* next-available mode when present, else virtual if the provider accepts
\* virtual visits, else in_person.
C25_BuildSlots ==
  \A c \in Evaluated("buildSlots") :
    LET slots == The(c.result)
    IN /\ Len(slots) = 4
       /\ \A i \in 1..4 :
            /\ dateOf(slots[i].iso) = ExpectedBase(c.arg) + 30 * (i - 1)
            /\ slots[i].mode = ExpectedMode(c.arg.provider)

\* slots built from now + 1 hour across midnight for a provider that has no
\* timestamp and no mode but accepts virtual visits
C25_Witness ==
  \E c \in Evaluated("buildSlots") :
    /\ c.arg.provider.next_available_start = Null
    /\ c.arg.provider.next_available_mode = Null
    /\ c.arg.provider.accepts_virtual
    /\ The(c.result)[1].iso = "2025-01-07T23:40:00.000Z"
    /\ The(c.result)[2].iso = "2025-01-08T00:10:00.000Z"
    /\ The(c.result)[4].mode = "virtual"

\* the answer recorded for question k
AnswerTo(k) ==
  {a.answer : a \in {r \in symptomResponses : r.id = symptomQuestions[k].id}}

\* C26: when all N symptom questions have been answered, the transcript
\* holds a summary message that lists every question with its recorded
\* answer (the option chosen for it), in the original question order.
C26_SummaryInTranscript ==
  (symptomFlowActive /\ symptomStep >= Len(symptomQuestions)) =>
    \E i \in 1..Len(messages) :
      /\ messages[i].role = "assistant"
      /\ \A k \in 1..Len(symptomQuestions) :
           \E a \in AnswerTo(k) : includes(messages[i].text, a)

\* the lower-cased text contains one of the terms
ContainsAny(text, terms) == \E w \in terms : includes(toLowerCase(text), w)

\* C27: isInsuranceQuery(text) is true if and only if the lower-cased text
\* contains an insurance term (insurance, coverage, plan) and a doctor term
\* (doctor, provider, accept); one kind of term alone does not qualify.
C27_InsuranceQueryNeedsBothTerms ==
  \A c \in Evaluated("isInsuranceQuery") :
    The(c.result) = (/\ ContainsAny(c.arg, {"insurance", "coverage", "plan"})
                     /\ ContainsAny(c.arg, {"doctor", "provider", "accept"}))

\* the whitespace-separated tokens of the trimmed text
Tokens(text) == splitWs(trim(text))

\* C28: looksLikeProviderName(text) is true only for a trimmed text of 1 to
\* 3 whitespace-separated tokens in which every token is a name word (a
\* letter followed by letters, apostrophes, hyphens or periods); a 3-token
\* text is accepted only when its first token is the title "Dr" (in any
\* letter case), and a text of 4 or more tokens is rejected.
C28_ProviderNameShape ==
  \A c \in Evaluated("looksLikeProviderName") :
    The(c.result) =>
      /\ Len(Tokens(c.arg)) \in 1..3
      /\ \A i \in 1..Len(Tokens(c.arg)) : isNameWord(Tokens(c.arg)[i])
      /\ Len(Tokens(c.arg)) = 3 => toLowerCase(Tokens(c.arg)[1]) = "dr"

\* a padded three-token text with the title was accepted
C28_Witness ==
  \E c \in Evaluated("looksLikeProviderName") :
    /\ c.arg = "  Dr   Jane  Smith "
    /\ The(c.result)

\* ------------------------------------------------------------ failed calls
\* the continuation of the suspended activation t when its call settles as r
Settled(s, t, r) ==
  CASE t.at = "providers" ->
         IF s.variant = "page" THEN fetchPrimaryCareProvidersSettled(s, t, r)
         ELSE fetchProvidersByTypeSettled(s, t, r)
    [] t.at = "provider-search" -> fetchProvidersByNameSettled(s, t, r)
    [] t.at = "search-intent" ->
         IF s.variant = "page" THEN searchIntentSettledPage(s, t, r)
         ELSE searchIntentSettledChat(s, t, r)
    [] t.at = "care-options" -> careOptionsSettled(s, t, r)
    [] t.at = "availability" -> loadAvailabilitySettled(s, t, r)
    [] t.at = "holds" -> holdSlotSettled(s, t, r)
    [] t.at = "appointments" -> bookAppointmentSettled(s, t, r)
    [] t.at = "suggestions" -> suggestionsSettled(s, t, r)
    [] OTHER -> s

\* n has a new assistant entry carrying the error text e
Surfaced(s, n, e) ==
  \E i \in (Len(s.messages) + 1)..Len(n.messages) :
    n.messages[i].role = "assistant" /\ includes(n.messages[i].text, e)

\* C29: every failed collaborator call (search-intent, care-options,
\* providers, provider-search, availability, holds, appointments) is
\* surfaced as an assistant-role transcript entry carrying the error text,
\* and the failed call is not retried: the action that made it issues no
\* second call to the same endpoint.
C29_FailuresSurfacedNoRetry ==
  [][ /\ \A t \in tasks : \A e \in ErrorReasons :
           t.at \in ActionCalls \cup {"suggestions"} =>
             Surfaced(S, Settled(S, t, Failed(e)), e)
      /\ \A t \in tasks \ tasks' : \A u \in tasks' \ tasks :
           ~(u.at = t.at /\ u.cause = t.cause) ]_vars

\* C30: every new user turn clears the insurance selection: after the reset
\* step of handleSend selectedInsurance is null, whatever plan an earlier
\* turn selected and whatever branch the turn takes.
C30_TurnClearsInsurance ==
  [][ TurnStarts => selectedInsurance' = Null ]_vars

\* ------------------------------------------------------- generic replies
\* the transcript entries a step appends
NewEntries == SubSeq(messages', Len(messages) + 1, Len(messages'))

\* the prompt of the first dimension text leaves unknown, in the order
\* mode, urgency, patient group; NULL when it states all three
DimensionPrompt(text) ==
  IF detectModePreference(text) = NULL
    THEN "Choose a visit format so I can tailor the schedule."
  ELSE IF detectUrgency(text) = NULL THEN "Pick how soon you'd like care."
  ELSE IF detectPatientGroup(text) = NULL THEN "Select who the visit is for."
  ELSE NULL

\* the step appended the synthesized reply of the generic-intent branch
GenericReplied ==
  /\ variant = "chat"
  /\ Len(NewEntries) > 0
  /\ slice(NewEntries[1].text, 1, 16) = "I can help with "

AnsweredIds == {r.id : r \in symptomResponses}

\* C32: symptomStep stays between 0 and the number of symptom questions;
\* symptomResponses holds an answer for exactly the first symptomStep
\* questions; answering with symptomStep below the number of questions
\* records the option under the current question's id and advances by one,
\* and answering with all questions answered changes nothing.
C32_SymptomProgress ==
  /\ symptomStep \in 0..Len(symptomQuestions)
  /\ AnsweredIds = {symptomQuestions[k].id : k \in 1..symptomStep}
  /\ Cardinality(symptomResponses) = symptomStep
  /\ symptomStep < Len(symptomQuestions) =>
       \A o \in Elems(symptomQuestions[symptomStep + 1].options) :
         /\ answerSymptomQuestion(S, o).symptomStep = symptomStep + 1
         /\ answerSymptomQuestion(S, o).symptomResponses =
              symptomResponses \cup
                {[id |-> symptomQuestions[symptomStep + 1].id, answer |-> o]}
  /\ symptomStep = Len(symptomQuestions) =>
       \A k \in 1..Len(symptomQuestions) :
         \A o \in Elems(symptomQuestions[k].options) :
           answerSymptomQuestion(S, o) = S

\* every question of the symptom flow was answered
C32_Witness ==
  /\ symptomFlowActive
  /\ symptomStep = Len(symptomQuestions)
  /\ Cardinality(symptomResponses) = Len(symptomQuestions)

\* ------------------------------------------------------- closing message
\* the transcript entries that close a symptom triage
ClosingMessages ==
  {i \in 1..Len(messages) :
     /\ messages[i].role = "assistant"
     /\ slice(messages[i].text, 1, 23) = "Thanks for the details."}

\* the transcript entries the user sent
UserTurns == {i \in 1..Len(messages) : messages[i].role = "user"}

\* C33: the closing message of the symptom flow names the resolved location
\* label whenever the geolocation request of this flow succeeds, whether the
\* result arrives before or after the last answer; it says "near you" only
\* when the request was denied or unavailable. Stated for a session whose
\* only turn started the flow, so that the request is this flow's.
C33_ClosingMessageNamesLocation ==
  ( /\ symptomFlowActive
    /\ symptomStep = Len(symptomQuestions)
    /\ Cardinality(UserTurns) = 1
    /\ geoStatus = "granted" ) =>
      \A i \in ClosingMessages :
        /\ userLocation # Null
        /\ includes(messages[i].text, "near " \o The(userLocation))
        /\ ~includes(messages[i].text, "near you")

\* ------------------------------------------------------------ dimensions
\* the number of places where term starts in the lower-cased text
Occurrences(text, term) ==
  Cardinality({i \in 1..Len(text) :
                 slice(toLowerCase(text), i, i + Len(term) - 1) = term})

\* text has urgent wording other than inside "not urgent" / "non-urgent"
SaysUrgent(text) ==
  \/ ContainsAny(text, {"asap", "today", "right away"})
  \/ Occurrences(text, "urgent") >
       Occurrences(text, "not urgent") + Occurrences(text, "non-urgent")

SaysRoutine(text) ==
  ContainsAny(text, {"routine", "checkup", "not urgent", "non-urgent"})

\* C34: detectUrgency returns "urgent" for text with urgent, asap, today or
\* right away, "routine" for text with routine, checkup, not urgent or
\* non-urgent, and null otherwise; text whose only urgency wording is
\* "not urgent" or "non-urgent" is classified "routine".
C34_UrgencyOfText ==
  \A c \in Evaluated("detectUrgency") :
    The(c.result) = IF SaysUrgent(c.arg) THEN "urgent"
                    ELSE IF SaysRoutine(c.arg) THEN "routine"
                    ELSE NULL

\* the words that refer to a child
ChildWords == {"child", "kid", "son", "daughter", "pediatric"}

\* text has a word that refers to a child
NamesChild(text) ==
  \E k \in 1..Len(Tokens(toLowerCase(text))) :
    Tokens(toLowerCase(text))[k] \in ChildWords

\* C35: detectPatientGroup returns "pediatric" only for text that refers to
\* a child; text without a child reference, "in person" and words such as
\* "reason" or "person" included, returns "adult" or null, so a stated mode
\* preference does not decide the patient group.
C35_PediatricOnlyForChildText ==
  \A c \in Evaluated("detectPatientGroup") :
    /\ The(c.result).group = "pediatric" => NamesChild(c.arg)
    /\ ~NamesChild(c.arg) =>
         The(c.result).group = (IF ContainsAny(c.arg, {"adult"}) THEN "adult" ELSE NULL)

\* ------------------------------------------------------------ hold fields
\* C36: holdId, holdExpiresAt and selectedSlot are always either all null
\* or all non-null.
C36_HoldFieldsTogether ==
  \/ holdId = Null /\ holdExpiresAt = Null /\ selectedSlot = Null
  \/ holdId # Null /\ holdExpiresAt # Null /\ selectedSlot # Null

\* a hold was placed while an earlier hold was tracked, so the three fields
\* were replaced together
C36_Witness ==
  /\ holdId # Null /\ holdExpiresAt # Null /\ selectedSlot # Null
  /\ Cardinality(backendHolds) >= 2
  /\ The(holdExpiresAt) = ExpiryOf(The(holdId))

\* ----------------------------------------------------------- turn ending
\* the collaborator calls of user actions that are in flight
CallsInFlight == {t \in tasks : t.at \in ActionCalls}

\* C37: every turn ends with loading false: once every collaborator call
\* of the turn has completed, successfully or not, and no call of another
\* user action is pending, loading is false.
C37_TurnEndsNotLoading ==
  CallsInFlight = {} => ~loading

\* two turns ran to completion, the later one through a failed call
C37_Witness ==
  /\ CallsInFlight = {}
  /\ ~loading
  /\ used.turns >= 2
  /\ \E i \in 1..Len(messages) :
       /\ messages[i].role = "assistant"
       /\ slice(messages[i].text, 1, 7) = "Error: "
       /\ \E j \in 1..(i - 1) : messages[j].role = "user" /\ messages[j].op < messages[i].op

\* ---------------------------------------------------- appointment overview
\* the appointment_overview entries of a transcript
Overviews(ms) == {i \in 1..Len(ms) : ms[i].kind = "appointment_overview"}

\* C38: the transcript holds at most one entry of kind appointment_overview;
\* handleSlotSelect appends one only when none exists, and every slot
\* selection replaces selectedAppointment with the provider and slot chosen.
C38_OneAppointmentOverview ==
  /\ [](Cardinality(Overviews(messages)) <= 1)
  /\ [][ (selectedAppointment' # Null /\ selectedAppointment' # selectedAppointment) =>
           /\ Overviews(messages) # {} => messages' = messages
           /\ Overviews(messages) = {} =>
                /\ Len(messages') = Len(messages) + 1
                /\ Overviews(messages') = {Len(messages')}
           /\ \E p \in Elems(The(providerMatches)) : \E now \in Nows :
                \E slot \in Elems(buildSlots(p, now)) :
                  selectedAppointment' = Some([provider |-> p, slot |-> slot]) ]_vars

\* an appointment was confirmed and another slot selected afterwards, under
\* the overview entry of the first selection
C38_Witness ==
  /\ Cardinality(Overviews(messages)) = 1
  /\ selectedAppointment # Null
  /\ \E i \in 1..Len(messages) :
       /\ messages[i].kind = "success"
       /\ \A j \in Overviews(messages) : j < i

\* --------------------------------------------------------- option clicks
\* the quick-reply options the assistant offers
CareTypeOptions == {"Primary Care", "Urgent Care", "Pediatrics"}
FollowUpOptions == {"In-person", "Virtual", "Today or soon", "Routine", "Adult", "Child"}

\* the options on offer in the transcript
OfferedOptions == UNION {Elems(messages[i].options) : i \in 1..Len(messages)}

\* the step starts a turn whose user entry is o
StartedWith(o) ==
  /\ TurnStarts
  /\ \E i \in 1..Len(messages') :
       /\ messages'[i].role = "user"
       /\ messages'[i].text = o
       /\ \A j \in 1..Len(messages) : messages[j].op # messages'[i].op

\* the provider type a care-type option stands for
SpecialtyOf(o) ==
  IF o = "Primary Care" THEN "primary_care"
  ELSE IF o = "Urgent Care" THEN "urgent_care"
  ELSE "pediatrics"

\* the option answers the dimension it was offered for
Recognised(o) ==
  IF o \in {"In-person", "Virtual"} THEN detectModePreference(o) # NULL
  ELSE IF o \in {"Today or soon", "Routine"} THEN detectUrgency(o) # NULL
  ELSE detectPatientGroup(o) # NULL

\* C39: clicking a quick-reply option the assistant offered starts a turn
\* that is not routed to the provider-name lookup: a care-type option
\* (Primary Care, Urgent Care, Pediatrics) leads to the discovery of that
\* specialty, and a follow-up option (In-person, Virtual, Today or soon,
\* Routine, Adult, Child) leads to the generic-intent branch with the
\* answered dimension recognised.
C39_OptionClickNotANameLookup ==
  [][ \A o \in OfferedOptions \cap (CareTypeOptions \cup FollowUpOptions) :
        StartedWith(o) =>
          /\ \A t \in tasks' \ tasks : t.at # "provider-search"
          /\ o \in CareTypeOptions =>
               \E t \in tasks' \ tasks :
                 t.at = "providers" /\ t.arg.providerType = SpecialtyOf(o)
          /\ o \in FollowUpOptions =>
               /\ \E t \in tasks' \ tasks : t.at = "search-intent"
               /\ Recognised(o) ]_vars

====
